---- MODULE Spec2Model ----
(***************************************************************************)
(* CASA data portal backend: the relational store (noaa_events, nc_files,  *)
(* individual_reference_files, event_reference_files), the event mapper    *)
(* (mapper/mapper.py), the registry upserts (kerchunker/src/db_tools.py)   *)
(* and the combined-index step (kerchunker/src/kerchunk_event_refs.py).    *)
(*                                                                         *)
(* Time is in minutes.  A raw file's storage key is                        *)
(* <product>/<date_dir>/<filename>, and the file name encodes the          *)
(* timestamp, so a key is modelled as the pair <<product, date_time>>.     *)
(* Batch entry points run one at a time (single writer).                   *)
(***************************************************************************)
EXTENDS Integers, Sequences, FiniteSets, TLC

VARIABLES
    noaa_records,                \* rows [id, file_year, last_modified]
    noaa_events,                 \* id -> [noaa_product, date_time_start, date_time_end, status]
    nc_files,                    \* rows [id, s3_path, date_time, product, event_id, ref_file_id]
    individual_reference_files,  \* rows [id, s3_path, date_time, product, event_id, nc_file_id]
    event_reference_files,       \* rows [id, s3_path, product, event_id]
    s3_objects,                  \* keys of the index objects written to the bucket
    pc,                          \* position of the running batch entry point
    start_date,                  \* argument of the running map_events
    events_to_map,               \* map_events: events still to iterate over
    matching_nc_files,           \* map_events: rows loaded by get_matching_nc_files
    link_i,                      \* map_events: index of the next file of the transaction
    run_log,                     \* per event: what the current run did with it
    mapped_files,                \* per event: ids of the raw files committed with it
    events,                      \* combiner: events still to merge
    items,                       \* combiner: (ref_filepath, event_id) of phase 1
    merge_log,                   \* combiner: merges attempted, with what was known then
    last_upsert,                 \* registry: the last upsert call and its outcome
    session,                     \* batch flush: the open session's tables and state
    flush_items,                 \* batch flush: items of the batch still to process
    flush_log,                   \* batch flush: per item, its path and how it ended
    parse_name,                  \* the file name handed to parse_file_datetime_infer_simple
    parse_result,                \* what the call did: not called, returned, raised
    unit,                        \* phase 1: which orchestration runs it
    semaphore,                   \* phase 1: the free slots of asyncio.Semaphore
    task_pc,                     \* phase 1: where each gathered task is
    gather,                      \* phase 1: the state of await asyncio.gather(...)
    failed_uploads,              \* uploader: the failed_uploads table
    upload,                      \* uploader: the locals of upload_file and how it ended
    scope,                       \* one session_scope unit of work, from entry to exit
    checked,                     \* checker: what the last check_noaa saw and how it ended
    damage_str,                  \* the string handed to process_damage
    damage_result,               \* what the call did: not called, returned, raised
    runs,                        \* two concurrent map_events runs: each one's position, selection and loaded files
    commits,                     \* the linking transactions committed by those runs, in commit order
    phase2,                      \* phase 2 of the combiner: position, next item, the open session's writes, batches begun
    cpu_count,                   \* what os.cpu_count() answers on the host
    slots,                       \* the value the semaphore is created with
    csv_row,                     \* a row of a yearly file: its state, CZ_NAME and EVENT_TYPE
    ingested,                    \* whether parse_noaa_csv kept the row
    lookup,                      \* the mapper's product lookup for the event of the row
    rerun,                       \* whether the running map_events repeats the call of a run that returned
    last_uploaded_date,          \* uploader: product -> the date of its last_uploaded_date row, NULL without a row
    copy                         \* uploader: the running copy_mgh5_to_osn: position, product, directories left, next file

vars == <<noaa_records, noaa_events, nc_files, individual_reference_files, event_reference_files,
          s3_objects, pc, start_date, events_to_map, matching_nc_files, link_i,
          run_log, mapped_files, events, items, merge_log, last_upsert,
          session, flush_items, flush_log, parse_name, parse_result,
          unit, semaphore, task_pc, gather, failed_uploads, upload, scope, checked,
          damage_str, damage_result,
          runs, commits,
          phase2,
          cpu_count, slots,
          csv_row, ingested, lookup,
          rerun,
          last_uploaded_date, copy>>

store == <<noaa_records, noaa_events, nc_files, individual_reference_files, event_reference_files>>
mapper_vars == <<start_date, events_to_map, matching_nc_files, link_i, run_log, mapped_files>>
combiner_vars == <<events, items, merge_log, s3_objects>>
flush_vars == <<session, flush_items, flush_log>>
\* the state of the units that are followed on their own
parse_vars == <<parse_name, parse_result>>
sem_vars == <<unit, semaphore, task_pc, gather>>
upload_vars == <<failed_uploads, upload>>
scope_vars == <<scope>>
checked_vars == <<checked>>
damage_vars == <<damage_str, damage_result>>
runs_vars == <<runs, commits>>
phase2_vars == <<phase2>>
cpu_vars == <<cpu_count, slots>>
lookup_vars == <<csv_row, ingested, lookup>>
rerun_vars == <<rerun>>
dates_vars == <<last_uploaded_date, copy>>
side_vars == <<flush_vars, parse_vars, sem_vars, upload_vars, scope_vars, checked_vars,
               damage_vars, runs_vars, phase2_vars, cpu_vars, lookup_vars, rerun_vars,
               dates_vars>>
\* the side state a unit leaves alone
not_flush == <<parse_vars, sem_vars, upload_vars, scope_vars, checked_vars, damage_vars,
               runs_vars, phase2_vars, cpu_vars, lookup_vars, rerun_vars, dates_vars>>
not_parse == <<flush_vars, sem_vars, upload_vars, scope_vars, checked_vars, damage_vars,
               runs_vars, phase2_vars, cpu_vars, lookup_vars, rerun_vars, dates_vars>>
not_sem == <<flush_vars, parse_vars, upload_vars, scope_vars, checked_vars, damage_vars,
             runs_vars, phase2_vars, cpu_vars, lookup_vars, rerun_vars, dates_vars>>
not_upload == <<flush_vars, parse_vars, sem_vars, scope_vars, checked_vars, damage_vars,
                runs_vars, phase2_vars, cpu_vars, lookup_vars, rerun_vars, dates_vars>>
not_scope == <<flush_vars, parse_vars, sem_vars, upload_vars, checked_vars, damage_vars,
               runs_vars, phase2_vars, cpu_vars, lookup_vars, rerun_vars, dates_vars>>
not_checked == <<flush_vars, parse_vars, sem_vars, upload_vars, scope_vars, damage_vars,
                 runs_vars, phase2_vars, cpu_vars, lookup_vars, rerun_vars, dates_vars>>
not_damage == <<flush_vars, parse_vars, sem_vars, upload_vars, scope_vars, checked_vars,
                runs_vars, phase2_vars, cpu_vars, lookup_vars, rerun_vars, dates_vars>>
not_runs == <<flush_vars, parse_vars, sem_vars, upload_vars, scope_vars, checked_vars,
              damage_vars, phase2_vars, cpu_vars, lookup_vars, rerun_vars, dates_vars>>
not_phase2 == <<flush_vars, parse_vars, sem_vars, upload_vars, scope_vars, checked_vars,
                damage_vars, runs_vars, cpu_vars, lookup_vars, rerun_vars, dates_vars>>
not_cpu == <<flush_vars, parse_vars, sem_vars, upload_vars, scope_vars, checked_vars,
             damage_vars, runs_vars, phase2_vars, lookup_vars, rerun_vars, dates_vars>>
not_lookup == <<flush_vars, parse_vars, sem_vars, upload_vars, scope_vars, checked_vars,
                damage_vars, runs_vars, phase2_vars, cpu_vars, rerun_vars, dates_vars>>
not_rerun == <<flush_vars, parse_vars, sem_vars, upload_vars, scope_vars, checked_vars,
               damage_vars, runs_vars, phase2_vars, cpu_vars, lookup_vars, dates_vars>>
not_dates == <<flush_vars, parse_vars, sem_vars, upload_vars, scope_vars, checked_vars,
               damage_vars, runs_vars, phase2_vars, cpu_vars, lookup_vars, rerun_vars>>

(***************************************************************************)
(* Bounds of the model.                                                    *)
(***************************************************************************)
MaxEvents == 2
MaxFiles == 2

NULL == 0
\* the marker for a None returned by a file-name parser
Unparseable == -1

UNMAPPED == "unmapped"
MAPPED == "mapped"
MODIFIED == "modified"
EventStatus == {UNMAPPED, MAPPED, MODIFIED}

(***************************************************************************)
(* shared/noaa_product_to_product.py                                       *)
(***************************************************************************)
event_to_product_map ==
    [c \in {"Heavy Snow", "Strong Wind", "High Wind", "Heavy Rain", "Flash Flood",
            "Ice Storm", "Flood", "Thunderstorm Wind", "Blizzard", "Hail", "Tornado"} |->
        CASE c \in {"Heavy Rain", "Flash Flood", "Flood"} ->
                 <<"rainfall", "reflectivity", "singleradar">>
          [] c = "Hail" -> <<"hail", "reflectivity", "singleradar">>
          [] OTHER -> <<"reflectivity", "singleradar">>]

\* timedelta(minutes=15)
PaddingMinutes == 15

(***************************************************************************)
(* The inputs the model draws from.                                        *)
(***************************************************************************)
Products == <<"rainfall", "reflectivity">>
Times == {0, 15, 30, 45}
StartDates == {NULL, 30}

ProductIndex(p) == CHOOSE i \in 1..Len(Products) : Products[i] = p

FileKeys == {<<Products[i], t>> : i \in 1..Len(Products), t \in Times}
KeyRank(k) == ProductIndex(k[1]) * 1000 + k[2]
\* row id of a key in a catalog: its rank in the catalog
KeyId(k, S) == Cardinality({j \in S : KeyRank(j) <= KeyRank(k)})

\* os.path.join("ref_files", s3_dir, filename_json)
RefPath(nc_path) == <<"ref_files">> \o nc_path

(***************************************************************************)
(* shared/tools.py: file names.  A name is the sequence of its             *)
(* dot-separated parts; a part is a prefix followed by a text, and a text  *)
(* in one of the two timestamp layouts denotes a time.                     *)
(***************************************************************************)
HailLayout == "%Y%m%d-%H%M%S"
RainfallLayout == "%Y%m%d_%H%M%S"
Prefixes == {"COMPOSITE_", "tx-", ""}
NameStamps == {15}

StampPart(prefix, layout, t) == [prefix |-> prefix, text |-> layout, stamp |-> t]
OtherPart(prefix) == [prefix |-> prefix, text |-> "x", stamp |-> Unparseable]
JsonPart == [prefix |-> "", text |-> "json", stamp |-> Unparseable]

NameParts ==
    {StampPart(p, l, t) : p \in Prefixes, l \in {HailLayout, RainfallLayout}, t \in NameStamps}
        \cup {OtherPart(p) : p \in Prefixes} \cup {JsonPart}

MaxParts == 3
FileNames == UNION {[1..n -> NameParts] : n \in 1..MaxParts}

\* the outcome of a call: a return value, or the exception that left it
NotCalled == [raised |-> "not called", value |-> Unparseable]
Returned(v) == [raised |-> "", value |-> v]
Raised(x) == [raised |-> x, value |-> Unparseable]

\* base_name.removesuffix(".json")
removesuffix_json(name) ==
    IF Len(name) > 1 /\ name[Len(name)] = JsonPart
    THEN SubSeq(name, 1, Len(name) - 1) ELSE name

\* "COMPOSITE_" in base_name, "tx-" in base_name
Contains(name, prefix) == \E i \in 1..Len(name) : name[i].prefix = prefix

\* datetime.strptime(text, prefix + layout): the time, or ValueError
strptime(name, prefix, layout) ==
    IF /\ Len(name) = 1
       /\ name[1].prefix = prefix
       /\ name[1].text = layout
    THEN Returned(name[1].stamp) ELSE Raised("ValueError")

\* lines 73-75: only ValueError is caught
except_ValueError(r) == IF r.raised = "ValueError" THEN Returned(Unparseable) ELSE r

\* lines 65-66: filename_split = base_name.split("."); filename_split[1]
second_part(name) ==
    IF Len(name) < 2 THEN Raised("IndexError")
    ELSE strptime(<<name[2]>>, "tx-", HailLayout)

parse_file_datetime_infer_simple(filename) ==
    LET base_name == removesuffix_json(filename)
    IN except_ValueError(
           IF Contains(base_name, "COMPOSITE_") THEN strptime(base_name, "COMPOSITE_", HailLayout)
           ELSE IF Contains(base_name, "tx-") THEN second_part(base_name)
           ELSE strptime(base_name, "", RainfallLayout))

\* the events a store may hold, in ingestion order; a MODIFIED status is set
\* upstream of the mapper
EventCatalog ==
    << [noaa_product |-> "Flood", date_time_start |-> 15, date_time_end |-> 15, status |-> UNMAPPED],
       [noaa_product |-> "Flood", date_time_start |-> 15, date_time_end |-> 30, status |-> UNMAPPED],
       [noaa_product |-> "Flood", date_time_start |-> 30, date_time_end |-> 30, status |-> UNMAPPED],
       [noaa_product |-> "Heavy Snow", date_time_start |-> 15, date_time_end |-> 30, status |-> UNMAPPED],
       [noaa_product |-> "Heavy Snow", date_time_start |-> 30, date_time_end |-> 30, status |-> UNMAPPED],
       [noaa_product |-> "Flood", date_time_start |-> 30, date_time_end |-> 30, status |-> MODIFIED] >>

\* the i-th smallest member of a set of numbers
Nth(S, i) == CHOOSE x \in S : Cardinality({y \in S : y <= x}) = i

InitialEvents ==
    {[i \in 1..Cardinality(S) |-> EventCatalog[Nth(S, i)]] :
        S \in {T \in SUBSET (1..Len(EventCatalog)) : Cardinality(T) <= MaxEvents}}

InitialFiles ==
    {c \in {T \in SUBSET FileKeys : Cardinality(T) <= MaxFiles} \X SUBSET FileKeys :
        c[2] \subseteq c[1]}

NcRow(k, S, I) ==
    [id |-> KeyId(k, S), s3_path |-> k, date_time |-> k[2], product |-> k[1],
     event_id |-> NULL, ref_file_id |-> IF k \in I THEN 100 + KeyId(k, S) ELSE NULL]
RefRow(k, S) ==
    [id |-> 100 + KeyId(k, S), s3_path |-> RefPath(k), date_time |-> k[2],
     product |-> k[1], event_id |-> NULL, nc_file_id |-> KeyId(k, S)]

(***************************************************************************)
(* Row helpers.                                                            *)
(***************************************************************************)
RECURSIVE SeqById(_)
\* a result set in row-id order
SeqById(S) ==
    IF S = {} THEN <<>>
    ELSE LET m == CHOOSE x \in S : \A y \in S : x.id <= y.id
         IN <<m>> \o SeqById(S \ {m})

Range(q) == {q[i] : i \in 1..Len(q)}

\* NcFile.ref_file: the row the raw file's ref_file_id names (joinedload)
ref_file(nc) ==
    IF \E r \in individual_reference_files : r.id = nc.ref_file_id
    THEN nc.ref_file_id
    ELSE NULL

\* the raw file as the session loads it, with its ref_file
LoadedNcFile(f) ==
    [id |-> f.id, event_id |-> f.event_id, ref |-> ref_file(f),
     ref_event_id |-> IF ref_file(f) = NULL THEN NULL
                      ELSE (CHOOSE r \in individual_reference_files :
                                r.id = f.ref_file_id).event_id]

(***************************************************************************)
(* mapper/src/db_tools.py                                                  *)
(***************************************************************************)
get_events_to_map_any_status(since) ==
    {e \in DOMAIN noaa_events :
        since # NULL => noaa_events[e].date_time_start >= since}
\* the selection without the lower bound on the start
get_events_to_map_any_start(since) ==
    {e \in DOMAIN noaa_events : noaa_events[e].status = UNMAPPED}
get_events_to_map(since) ==
    {e \in DOMAIN noaa_events :
        /\ noaa_events[e].status = UNMAPPED
        /\ (since # NULL => noaa_events[e].date_time_start >= since)}

\* the selection without the product
get_matching_nc_files_any_product(product, date_time_start, date_time_end) ==
    {f \in nc_files :
        /\ f.date_time >= date_time_start
        /\ f.date_time <= date_time_end}
get_matching_nc_files(product, date_time_start, date_time_end) ==
    {f \in nc_files :
        /\ f.product = product
        /\ f.date_time >= date_time_start
        /\ f.date_time <= date_time_end}

\* session_scope / the except branch of map_events: what the store holds after a
\* rollback, given the committed table and the table with the session's writes
AfterRollbackLeak(committed, written) == written
AfterRollback(committed, written) == committed

(***************************************************************************)
(* mapper/mapper.py: map_events                                            *)
(***************************************************************************)
\* the second product of the category instead of the first
MapperProductSecond(e) == event_to_product_map[noaa_events[e].noaa_product][2]
\* product = event_to_product_map[event.noaa_product][0]
MapperProduct(e) == event_to_product_map[noaa_events[e].noaa_product][1]
WindowStart(e) == noaa_events[e].date_time_start - PaddingMinutes
WindowEnd(e) == noaa_events[e].date_time_end + PaddingMinutes

NoMatchingFilesNever(m) == FALSE
\* a test that also skips an event with a single matching file
NoMatchingFilesButOne(m) == Len(m) <= 1
\* if len(matching_nc_files) == 0
NoMatchingFiles(m) == Len(m) = 0

CurrentEvent == Head(events_to_map)

\* the session's writes after the first k files of the loop, applied to the tables
LinkedNc(k) == {matching_nc_files[i].id : i \in 1..k}
LinkedRef(k) == {matching_nc_files[i].ref : i \in 1..k} \ {NULL}
NcWritten(k, e) ==
    {IF f.id \in LinkedNc(k) THEN [f EXCEPT !.event_id = e] ELSE f : f \in nc_files}
\* a loop that assigns the raw file only
RefWrittenNone(k, e) == individual_reference_files
\* lines 90-92: nc_file.ref_file.event_id = event.id
RefWritten(k, e) ==
    {IF r.id \in LinkedRef(k) THEN [r EXCEPT !.event_id = e] ELSE r :
        r \in individual_reference_files}

NoLog == [e \in DOMAIN noaa_events |-> "none"]

MapStart(since) ==
    /\ pc \in {"idle", "returned", "raised", "comb_returned", "comb_raised"}
    /\ start_date' = since
    /\ events_to_map' = SeqById({[id |-> e] : e \in get_events_to_map(since)})
    /\ run_log' = [e \in DOMAIN noaa_events |->
                      IF e \in get_events_to_map(since) THEN "selected" ELSE "none"]
    /\ matching_nc_files' = <<>>
    /\ link_i' = 0
    /\ pc' = "map_loop"
    /\ events' = <<>>
    /\ items' = <<>>
    /\ merge_log' = {}
    /\ UNCHANGED <<store, mapped_files, s3_objects, last_upsert, side_vars>>

\* lines 59-67: the resolver step
MapResolve ==
    /\ pc = "map_loop"
    /\ events_to_map # <<>>
    /\ LET e == CurrentEvent.id
           m == get_matching_nc_files(MapperProduct(e), WindowStart(e), WindowEnd(e))
       IN matching_nc_files' =
              SeqById({LoadedNcFile(f) : f \in m})
    /\ link_i' = 0
    /\ pc' = "map_matched"
    /\ UNCHANGED <<store, start_date, events_to_map, run_log, mapped_files,
                   combiner_vars, last_upsert, side_vars>>

\* lines 69-73: nothing matched, log and continue
MapSkip ==
    /\ pc = "map_matched"
    /\ NoMatchingFiles(matching_nc_files)
    /\ run_log' = [run_log EXCEPT ![CurrentEvent.id] = "skipped"]
    /\ events_to_map' = Tail(events_to_map)
    /\ pc' = "map_loop"
    /\ UNCHANGED <<store, start_date, matching_nc_files, link_i, mapped_files,
                   combiner_vars, last_upsert, side_vars>>

\* lines 78-81: open the session, re-fetch the event
MapBegin ==
    /\ pc = "map_matched"
    /\ ~NoMatchingFiles(matching_nc_files)
    /\ link_i' = 0
    /\ pc' = "map_txn"
    /\ UNCHANGED <<store, start_date, events_to_map, matching_nc_files, run_log,
                   mapped_files, combiner_vars, last_upsert, side_vars>>

\* lines 83-92: one iteration of the loop over the matching files
MapLinkFile ==
    /\ pc = "map_txn"
    /\ link_i < Len(matching_nc_files)
    /\ matching_nc_files[link_i + 1].ref # NULL
    /\ link_i' = link_i + 1
    /\ UNCHANGED <<store, pc, start_date, events_to_map, matching_nc_files, run_log,
                   mapped_files, combiner_vars, last_upsert, side_vars>>

\* the exception leaves map_events: lines 102-105, then session_scope's except
MapRaise(k, cause) ==
    /\ nc_files' = AfterRollback(nc_files, NcWritten(k, CurrentEvent.id))
    /\ individual_reference_files' =
           AfterRollback(individual_reference_files, RefWritten(k, CurrentEvent.id))
    /\ noaa_events' = AfterRollback(noaa_events, noaa_events)
    /\ run_log' = [run_log EXCEPT ![CurrentEvent.id] = cause]
    /\ link_i' = k
    /\ pc' = "raised"
    /\ UNCHANGED <<noaa_records, event_reference_files, start_date, events_to_map,
                   matching_nc_files, mapped_files, combiner_vars, last_upsert, side_vars>>

\* a loop that links a file without index and goes on
MapLinkFileSkipsRef ==
    /\ pc = "map_txn"
    /\ link_i < Len(matching_nc_files)
    /\ matching_nc_files[link_i + 1].ref = NULL
    /\ link_i' = link_i + 1
    /\ UNCHANGED <<store, pc, start_date, events_to_map, matching_nc_files, run_log,
                   mapped_files, combiner_vars, last_upsert, side_vars>>

\* lines 87-91: nc_file.event_id is assigned, then nc_file.ref_file is None
MapLinkFileNoRef ==
    /\ pc = "map_txn"
    /\ link_i < Len(matching_nc_files)
    /\ matching_nc_files[link_i + 1].ref = NULL
    /\ MapRaise(link_i + 1, "failed")

\* a store failure inside the transaction (any statement, or the commit)
MapStoreFailure ==
    /\ pc = "map_txn"
    /\ MapRaise(link_i, "store_failed")

\* a commit that links the files and leaves the status as it is
MapCommitKeepsStatus ==
    /\ pc = "map_txn"
    /\ link_i = Len(matching_nc_files)
    /\ LET e == CurrentEvent.id
       IN /\ nc_files' = NcWritten(link_i, e)
          /\ individual_reference_files' = RefWritten(link_i, e)
          /\ run_log' = [run_log EXCEPT ![e] = "mapped"]
          /\ mapped_files' = [mapped_files EXCEPT ![e] = LinkedNc(link_i)]
    /\ events_to_map' = Tail(events_to_map)
    /\ pc' = "map_loop"
    /\ UNCHANGED <<noaa_records, noaa_events, event_reference_files, start_date,
                   matching_nc_files, link_i, combiner_vars, last_upsert, side_vars>>

\* lines 94-100: the status flip and the commit
MapCommit ==
    /\ pc = "map_txn"
    /\ link_i = Len(matching_nc_files)
    /\ LET e == CurrentEvent.id
       IN /\ nc_files' = NcWritten(link_i, e)
          /\ individual_reference_files' = RefWritten(link_i, e)
          /\ noaa_events' = [noaa_events EXCEPT ![e].status = MAPPED]
          /\ run_log' = [run_log EXCEPT ![e] = "mapped"]
          /\ mapped_files' = [mapped_files EXCEPT ![e] = LinkedNc(link_i)]
    /\ events_to_map' = Tail(events_to_map)
    /\ pc' = "map_loop"
    /\ UNCHANGED <<noaa_records, event_reference_files, start_date, matching_nc_files,
                   link_i, combiner_vars, last_upsert, side_vars>>

\* the for loop is exhausted: map_events returns
MapReturn ==
    /\ pc = "map_loop"
    /\ events_to_map = <<>>
    /\ pc' = "returned"
    /\ UNCHANGED <<store, mapper_vars, combiner_vars, last_upsert, side_vars>>

MapEvents ==
    \/ \E since \in StartDates : MapStart(since)
    \/ MapResolve
    \/ MapSkip
    \/ MapBegin
    \/ MapLinkFile
    \/ MapLinkFileNoRef
    \/ MapStoreFailure
    \/ MapCommit
    \/ MapReturn

(***************************************************************************)
(* The registry calls of the combiner (kerchunker's src.db_tools names     *)
(* them; their bodies follow the design of sections 4.2 and 4.4).          *)
(***************************************************************************)
\* MAPPED events that have no combined index yet (the anti-join)
get_events_for_event_ref_files ==
    {e \in DOMAIN noaa_events :
        /\ noaa_events[e].status = MAPPED
        /\ ~\E r \in event_reference_files : r.event_id = e}

\* the individual indexes linked to the event
get_individual_ref_files(e) == {r \in individual_reference_files : r.event_id = e}

NextId(table) == IF table = {} THEN 1 ELSE 1 + Nth({r.id : r \in table}, Cardinality(table))

\* INSERT ... ON CONFLICT (s3_path) DO UPDATE ... RETURNING, with event_id unique:
\* the table after the call, or the table as it was when the statement fails
upsert_event_ref_file(table, dto) ==
    IF \E r \in table : r.s3_path # dto.s3_path /\ r.event_id = dto.event_id
    THEN table
    ELSE IF \E r \in table : r.s3_path = dto.s3_path
         THEN {IF r.s3_path = dto.s3_path
               THEN [r EXCEPT !.product = dto.product, !.event_id = dto.event_id]
               ELSE r : r \in table}
         ELSE table \cup {[id |-> NextId(table), s3_path |-> dto.s3_path,
                           product |-> dto.product, event_id |-> dto.event_id]}

(***************************************************************************)
(* kerchunker/src/kerchunk_event_refs.py                                   *)
(***************************************************************************)
EventRefPathFixed(event_id) == <<"event_ref_files", "noaa", 0>>
\* os.path.join("event_ref_files/noaa/", f"{event_id}.json")
EventRefPath(event_id) == <<"event_ref_files", "noaa", event_id>>

\* lines 98-110: one item of the batch
HandleEventRefItem(table, item) ==
    upsert_event_ref_file(table,
        [s3_path |-> item[1],
         product |-> event_to_product_map[noaa_events[item[2]].noaa_product][1],
         event_id |-> item[2]])

RECURSIVE HandleEventRefBatch(_, _)
\* lines 97-123: the items of one batch, in order, in one session
HandleEventRefBatch(table, batch) ==
    IF batch = <<>> THEN table
    ELSE HandleEventRefBatch(HandleEventRefItem(table, Head(batch)), Tail(batch))

\* os.path.basename of an index path: "<YYYYMMDD_HHMMSS>.json", or a name in no
\* timestamp layout
basename(rf_path) ==
    IF rf_path[3] = Unparseable THEN <<OtherPart(""), JsonPart>>
    ELSE <<StampPart("", RainfallLayout, rf_path[3]), JsonPart>>

\* lines 23-35: the coordinate of one individual index, from its file name
fn_to_datetime(fn) ==
    LET dt == parse_file_datetime_infer_simple(basename(fn))
    IN IF dt.raised = "" /\ dt.value = Unparseable THEN Raised("ValueError") ELSE dt

\* lines 59-69: MultiZarrToZarr calls fn_to_datetime for every path it was given;
\* an exception of the callable leaves translate()
MergeOk(e) == \A r \in get_individual_ref_files(e) : fn_to_datetime(r.s3_path).raised = ""

\* what can raise in the merge of an event: the transfers of lines 52-54 and 76-77,
\* and the coordinate function
MergeErrors(e) == IF MergeOk(e) THEN {"transfer"} ELSE {"transfer", "ValueError"}

MergeRecord(e, error) ==
    [event |-> e, status |-> noaa_events[e].status,
     n_refs |-> Cardinality(get_individual_ref_files(e)),
     again |-> EventRefPath(e) \in s3_objects,
     error |-> error]

\* kerchunker/main.py generate_event_ref_files, up to the task list; a new process
\* starts with none of the previous run's locals
CombStart ==
    /\ pc \in {"idle", "returned", "raised", "comb_returned", "comb_raised"}
    /\ events' = SeqById({[id |-> e] : e \in get_events_for_event_ref_files})
    /\ items' = <<>>
    /\ merge_log' = {}
    /\ pc' = "comb_merge"
    /\ start_date' = NULL
    /\ events_to_map' = <<>>
    /\ matching_nc_files' = <<>>
    /\ link_i' = 0
    /\ run_log' = NoLog
    /\ UNCHANGED <<store, mapped_files, s3_objects, last_upsert, side_vars>>

\* lines 131-144, 38-81: the merge of one event succeeds and is uploaded.  The
\* individual indexes are passed to MultiZarrToZarr whatever their number; over an
\* empty list the library may produce an empty artifact or raise.
CombMerge ==
    /\ pc = "comb_merge"
    /\ events # <<>>
    /\ MergeOk(Head(events).id)
    /\ LET e == Head(events).id
       IN /\ merge_log' = merge_log \cup {MergeRecord(e, "")}
          /\ s3_objects' = s3_objects \cup {EventRefPath(e)}
          /\ items' = Append(items, <<EventRefPath(e), e>>)
    /\ events' = Tail(events)
    /\ UNCHANGED <<store, pc, mapper_vars, last_upsert, side_vars>>

\* the merge or the transfer raises: gather re-raises, phase 2 never starts
CombMergeRaises ==
    /\ pc = "comb_merge"
    /\ events # <<>>
    /\ \E error \in MergeErrors(Head(events).id) :
          merge_log' = merge_log \cup {MergeRecord(Head(events).id, error)}
    /\ pc' = "comb_raised"
    /\ UNCHANGED <<store, mapper_vars, events, items, s3_objects, last_upsert, side_vars>>

\* lines 84-123: phase 2, the batch of database writes
CombFlush ==
    /\ pc = "comb_merge"
    /\ events = <<>>
    /\ event_reference_files' = HandleEventRefBatch(event_reference_files, items)
    /\ pc' = "comb_returned"
    /\ UNCHANGED <<noaa_records, noaa_events, nc_files, individual_reference_files,
                   mapper_vars, combiner_vars, last_upsert, side_vars>>

\* the batch's session fails to commit: session_scope rolls back and re-raises
CombFlushFails ==
    /\ pc = "comb_merge"
    /\ events = <<>>
    /\ items # <<>>
    /\ event_reference_files' =
           AfterRollback(event_reference_files,
                         HandleEventRefBatch(event_reference_files, items))
    /\ pc' = "comb_raised"
    /\ UNCHANGED <<noaa_records, noaa_events, nc_files, individual_reference_files,
                   mapper_vars, combiner_vars, last_upsert, side_vars>>

GenerateEventRefFiles ==
    \/ CombStart
    \/ CombMerge
    \/ CombMergeRaises
    \/ CombFlush
    \/ CombFlushFails

(***************************************************************************)
(* Specification: the store as the uploader, the index builder and the     *)
(* checker left it, then batch runs one at a time.                         *)
(***************************************************************************)
\* the yearly source file the events of a populated store came from
FileYear == 2016

\* no session is open
NoSession ==
    [open |-> FALSE, aborted |-> FALSE, nc |-> {}, ref |-> {}, nc0 |-> {}, ref0 |-> {}]

FlushIdle ==
    /\ session = NoSession
    /\ flush_items = <<>>
    /\ flush_log = <<>>

ParseIdle ==
    /\ parse_name = <<>>
    /\ parse_result = NotCalled

\* no phase 1 is running
SemIdle ==
    /\ unit = "none"
    /\ semaphore = 0
    /\ task_pc = <<>>
    /\ gather = "none"

\* upload_file is not running
NoUpload ==
    [pc |-> "idle", remote_file_path |-> <<>>, attempt |-> 0, tried |-> 0, ok |-> FALSE,
     failed_uploads0 |-> {}, registered |-> FALSE]

UploadIdle ==
    /\ failed_uploads = {}
    /\ upload = NoUpload

\* no unit of work was entered
NoScope ==
    [definition |-> "none", pc |-> "none", pending |-> {}, committed0 |-> {},
     raised_in |-> "", raised_out |-> "", rolled_back |-> FALSE, closed |-> FALSE]

ScopeIdle == scope = NoScope

\* check_noaa has not run
NotChecked == [outcome |-> "none", file_dates |-> <<>>, db_files |-> {}, links |-> <<>>,
               raised |-> ""]

CheckedIdle == checked = NotChecked

\* process_damage has not been called
DamageIdle ==
    /\ damage_str = <<>>
    /\ damage_result = NotCalled

\* no concurrent mapper run has started
RunsIdle ==
    /\ runs = [r \in {1, 2} |-> [pc |-> "idle", events_to_map |-> <<>>, matching_nc_files |-> <<>>]]
    /\ commits = <<>>

\* phase 2 has not started
NoPhase2 == [pc |-> "none", next |-> 1, batch |-> 0, aborted |-> FALSE, written |-> {}]

Phase2Idle ==
    phase2 = NoPhase2

\* no semaphore has been created
CpuIdle ==
    /\ cpu_count = NULL
    /\ slots = NotCalled

\* no row has been parsed
LookupIdle ==
    /\ csv_row = <<>>
    /\ ingested = "not parsed"
    /\ lookup = NotCalled

\* no map_events call has been repeated
RerunIdle ==
    rerun = FALSE

\* copy_mgh5_to_osn has not run
NoCopy == [pc |-> "idle", product |-> "", todo |-> <<>>, next |-> 0]

DatesIdle ==
    /\ last_uploaded_date = [p \in {"rainfall", "singleradar"} |-> NULL]
    /\ copy = NoCopy

SideInit ==
    /\ FlushIdle
    /\ ParseIdle
    /\ SemIdle
    /\ UploadIdle
    /\ ScopeIdle
    /\ CheckedIdle
    /\ DamageIdle
    /\ RunsIdle
    /\ Phase2Idle
    /\ CpuIdle
    /\ LookupIdle
    /\ RerunIdle
    /\ DatesIdle

NoUpsert ==
    [n |-> 0, table |-> "none", s3_path |-> <<>>, ok |-> FALSE, before_id |-> NULL,
     before |-> [date_time |-> NULL, product |-> "", event_id |-> NULL, link |-> NULL],
     dto |-> [date_time |-> NULL, product |-> "", event_id |-> NULL, link |-> NULL]]

Init ==
    /\ noaa_events \in InitialEvents
    /\ noaa_records = IF noaa_events = <<>> THEN {}
                      ELSE {[id |-> 1, file_year |-> FileYear, last_modified |-> 1]}
    /\ \E c \in InitialFiles :
          /\ nc_files = {NcRow(k, c[1], c[2]) : k \in c[1]}
          /\ individual_reference_files = {RefRow(k, c[1]) : k \in c[2]}
    /\ event_reference_files = {}
    /\ s3_objects = {}
    /\ pc = "idle"
    /\ start_date = NULL
    /\ events_to_map = <<>>
    /\ matching_nc_files = <<>>
    /\ link_i = 0
    /\ run_log = [e \in DOMAIN noaa_events |-> "none"]
    /\ mapped_files = [e \in DOMAIN noaa_events |-> {}]
    /\ events = <<>>
    /\ items = <<>>
    /\ merge_log = {}
    /\ last_upsert = NoUpsert
    /\ SideInit

Next == MapEvents \/ GenerateEventRefFiles

Spec == Init /\ [][Next]_vars

(***************************************************************************)
(* kerchunker/src/db_tools.py: the registry upserts.  Each is one          *)
(* INSERT ... ON CONFLICT (s3_path) DO UPDATE SET <every other column>     *)
(* RETURNING *; the operator is the table after a statement that succeeds. *)
(***************************************************************************)
RowsAt(table, path) == {r \in table : r.s3_path = path}

upsert_individual_ref_file_in_session(table, dto) ==
    IF RowsAt(table, dto.s3_path) # {}
    THEN {IF r.s3_path = dto.s3_path
          THEN [r EXCEPT !.date_time = dto.date_time, !.product = dto.product,
                         !.event_id = dto.event_id, !.nc_file_id = dto.nc_file_id]
          ELSE r : r \in table}
    ELSE table \cup {[id |-> NextId(table), s3_path |-> dto.s3_path,
                      date_time |-> dto.date_time, product |-> dto.product,
                      event_id |-> dto.event_id, nc_file_id |-> dto.nc_file_id]}

upsert_nc_file_in_session_keep(table, dto) ==
    IF RowsAt(table, dto.s3_path) # {}
    THEN table
    ELSE table \cup {[id |-> NextId(table), s3_path |-> dto.s3_path,
                      date_time |-> dto.date_time, product |-> dto.product,
                      event_id |-> dto.event_id, ref_file_id |-> dto.reference_file_id]}
upsert_nc_file_in_session(table, dto) ==
    IF RowsAt(table, dto.s3_path) # {}
    THEN {IF r.s3_path = dto.s3_path
          THEN [r EXCEPT !.date_time = dto.date_time, !.product = dto.product,
                         !.event_id = dto.event_id, !.ref_file_id = dto.reference_file_id]
          ELSE r : r \in table}
    ELSE table \cup {[id |-> NextId(table), s3_path |-> dto.s3_path,
                      date_time |-> dto.date_time, product |-> dto.product,
                      event_id |-> dto.event_id, ref_file_id |-> dto.reference_file_id]}

\* NcFile.ref_file_id is unique: another raw file already names the index
NcFileConflict(table, dto) ==
    /\ dto.reference_file_id # NULL
    /\ \E r \in table : r.s3_path # dto.s3_path /\ r.ref_file_id = dto.reference_file_id

\* EventRefFile.event_id is unique: another combined index already names the event
EventRefFileConflict(table, dto) ==
    \E r \in table : r.s3_path # dto.s3_path /\ r.event_id = dto.event_id

(***************************************************************************)
(* Upsert calls, each in a session of its own: the statement succeeds and  *)
(* is committed, or it raises (a constraint, a store failure) and the      *)
(* session is rolled back.                                                 *)
(***************************************************************************)
MaxUpserts == 3

RegistryTimes == {0, 15}
RegistryKeys == {<<Products[1], t>> : t \in RegistryTimes}

NoPayload == [date_time |-> NULL, product |-> "", event_id |-> NULL, link |-> NULL]

\* the columns an upsert writes, under one set of names for the three tables
PayloadOf(name, r) ==
    [date_time |-> IF name = "event_reference_files" THEN NULL ELSE r.date_time,
     product |-> r.product,
     event_id |-> r.event_id,
     link |-> CASE name = "nc_files" -> r.ref_file_id
                [] name = "individual_reference_files" -> r.nc_file_id
                [] OTHER -> NULL]

UpsertRecord(name, table, path, payload, ok) ==
    [n |-> last_upsert.n + 1, table |-> name, s3_path |-> path, ok |-> ok,
     before_id |-> IF RowsAt(table, path) = {} THEN NULL
                   ELSE (CHOOSE r \in RowsAt(table, path) : TRUE).id,
     before |-> IF RowsAt(table, path) = {} THEN NoPayload
                ELSE PayloadOf(name, CHOOSE r \in RowsAt(table, path) : TRUE),
     dto |-> payload]

UpsertNcFile(dto, ok) ==
    /\ pc = "idle"
    /\ last_upsert.n < MaxUpserts
    /\ ok => ~NcFileConflict(nc_files, dto)
    /\ nc_files' = IF ok THEN upsert_nc_file_in_session(nc_files, dto)
                   ELSE AfterRollback(nc_files, upsert_nc_file_in_session(nc_files, dto))
    /\ last_upsert' = UpsertRecord("nc_files", nc_files, dto.s3_path,
                          [date_time |-> dto.date_time, product |-> dto.product,
                           event_id |-> dto.event_id, link |-> dto.reference_file_id], ok)
    /\ UNCHANGED <<noaa_records, noaa_events, individual_reference_files,
                   event_reference_files, pc, mapper_vars, combiner_vars, side_vars>>

UpsertIndividualRefFile(dto, ok) ==
    /\ pc = "idle"
    /\ last_upsert.n < MaxUpserts
    /\ individual_reference_files' =
           IF ok THEN upsert_individual_ref_file_in_session(individual_reference_files, dto)
           ELSE AfterRollback(individual_reference_files,
                    upsert_individual_ref_file_in_session(individual_reference_files, dto))
    /\ last_upsert' = UpsertRecord("individual_reference_files", individual_reference_files,
                          dto.s3_path,
                          [date_time |-> dto.date_time, product |-> dto.product,
                           event_id |-> dto.event_id, link |-> dto.nc_file_id], ok)
    /\ UNCHANGED <<noaa_records, noaa_events, nc_files, event_reference_files, pc,
                   mapper_vars, combiner_vars, side_vars>>

UpsertEventRefFile(dto, ok) ==
    /\ pc = "idle"
    /\ last_upsert.n < MaxUpserts
    /\ ok => ~EventRefFileConflict(event_reference_files, dto)
    /\ event_reference_files' =
           IF ok THEN upsert_event_ref_file(event_reference_files, dto)
           ELSE AfterRollback(event_reference_files,
                    upsert_event_ref_file(event_reference_files, dto))
    /\ last_upsert' = UpsertRecord("event_reference_files", event_reference_files,
                          dto.s3_path,
                          [date_time |-> NULL, product |-> dto.product,
                           event_id |-> dto.event_id, link |-> NULL], ok)
    /\ UNCHANGED <<noaa_records, noaa_events, nc_files, individual_reference_files, pc,
                   mapper_vars, combiner_vars, side_vars>>

\* the payloads the calls draw from: two that differ in every column
RegistryPayloads ==
    {[date_time |-> 0, product |-> Products[1], event_id |-> NULL],
     [date_time |-> 15, product |-> Products[2], event_id |-> 1]}

Registry ==
    \/ \E k \in RegistryKeys, v \in RegistryPayloads, ok \in BOOLEAN,
          l \in {NULL} \cup {r.id : r \in individual_reference_files} :
          UpsertNcFile([s3_path |-> k, date_time |-> v.date_time, product |-> v.product,
                        event_id |-> v.event_id, reference_file_id |-> l], ok)
    \/ \E k \in RegistryKeys, v \in RegistryPayloads, ok \in BOOLEAN,
          l \in {NULL} \cup {r.id : r \in nc_files} :
          UpsertIndividualRefFile([s3_path |-> RefPath(k), date_time |-> v.date_time,
                                   product |-> v.product, event_id |-> v.event_id,
                                   nc_file_id |-> l], ok)
    \/ \E i, e \in DOMAIN noaa_events, p \in Range(Products), ok \in BOOLEAN :
          UpsertEventRefFile([s3_path |-> EventRefPath(i), product |-> p, event_id |-> e],
                             ok)

\* an empty registry next to two ingested events
InitRegistry ==
    /\ noaa_events = <<EventCatalog[1], EventCatalog[2]>>
    /\ noaa_records = {[id |-> 1, file_year |-> FileYear, last_modified |-> 1]}
    /\ nc_files = {}
    /\ individual_reference_files = {}
    /\ event_reference_files = {}
    /\ s3_objects = {}
    /\ pc = "idle"
    /\ start_date = NULL
    /\ events_to_map = <<>>
    /\ matching_nc_files = <<>>
    /\ link_i = 0
    /\ run_log = NoLog
    /\ mapped_files = [e \in DOMAIN noaa_events |-> {}]
    /\ events = <<>>
    /\ items = <<>>
    /\ merge_log = {}
    /\ last_upsert = NoUpsert
    /\ SideInit

SpecRegistry == InitRegistry /\ [][Registry]_vars


(***************************************************************************)
(* Claims about the event mapper.                                          *)
(***************************************************************************)
NcById(id) == CHOOSE f \in nc_files : f.id = id
RefById(id) == CHOOSE r \in individual_reference_files : r.id = id
MatchedIds == {matching_nc_files[i].id : i \in 1..Len(matching_nc_files)}
MapperRunOver == pc \in {"returned", "raised"}

\* C1: the resolver step returns exactly the raw files whose timestamp lies in
\* [E.start - 15, E.end + 15], bounds included, and whose product is one of the
\* storage products mapped from E's category.
C1_ResolverReturnsAllMappedProducts ==
    pc = "map_matched" =>
        LET E == noaa_events[CurrentEvent.id]
        IN MatchedIds =
               {f.id : f \in {g \in nc_files :
                    /\ E.date_time_start - 15 <= g.date_time
                    /\ g.date_time <= E.date_time_end + 15
                    /\ g.product \in Range(event_to_product_map[E.noaa_product])}}

\* C2: when an exception leaves an event's mapping transaction, the committed store
\* holds the event UNMAPPED and every matching raw file and its individual index
\* with the event_id they had before the transaction.
C2_MappingAllOrNothing ==
    pc = "raised" =>
        /\ noaa_events[CurrentEvent.id].status = UNMAPPED
        /\ \A i \in 1..Len(matching_nc_files) :
              LET m == matching_nc_files[i]
              IN /\ NcById(m.id).event_id = m.event_id
                 /\ m.ref # NULL => RefById(m.ref).event_id = m.ref_event_id

\* C2 witness: the exception came after some but not all matching files were assigned
C2_FailedPartWay ==
    /\ pc = "raised"
    /\ link_i > 0
    /\ link_i < Len(matching_nc_files)

\* C3: every MAPPED event has each raw file that matched it at mapping time carrying
\* event_id equal to that event.
C3_MappedEventsKeepTheirFiles ==
    \A e \in DOMAIN noaa_events :
        noaa_events[e].status = MAPPED =>
            \A id \in mapped_files[e] : NcById(id).event_id = e

InWindow(f, e) ==
    /\ noaa_events[e].date_time_start - 15 <= f.date_time
    /\ f.date_time <= noaa_events[e].date_time_end + 15

\* C4: after map_events ran (no store operation failing) on a store holding one
\* UNMAPPED event and raw files of its mapped product, some inside and some outside
\* the padded window, the files inside and their individual indexes carry the
\* event's id, the files outside keep their event_id, and the event is MAPPED.
C4_EndToEnd ==
    ( /\ MapperRunOver
      /\ DOMAIN noaa_events = {1}
      /\ run_log[1] \notin {"none", "store_failed"}
      /\ \A f \in nc_files :
            f.product = event_to_product_map[noaa_events[1].noaa_product][1]
      /\ \E f \in nc_files : InWindow(f, 1)
      /\ \E f \in nc_files : ~InWindow(f, 1) )
    => /\ noaa_events[1].status = MAPPED
       /\ \A f \in nc_files :
             IF InWindow(f, 1)
             THEN /\ f.event_id = 1
                  /\ f.ref_file_id # NULL => RefById(f.ref_file_id).event_id = 1
             ELSE f.event_id = NULL

\* C6: a failure while mapping one event is isolated: every other event the run
\* selected is still processed by that run.
C6_FailureIsolated ==
    MapperRunOver => \A e \in DOMAIN noaa_events : run_log[e] # "selected"

\* C7: when the resolver returns no file for an event, map_events raises nothing,
\* changes no row of the store (the event stays UNMAPPED) and goes on to the next
\* event.
C7_NoMatchSkips ==
    [][(pc = "map_matched" /\ matching_nc_files = <<>>) =>
          /\ pc' = "map_loop"
          /\ events_to_map' = Tail(events_to_map)
          /\ store' = store
          /\ noaa_events'[CurrentEvent.id].status = UNMAPPED]_vars

\* C7 witness: an event was skipped and the run went on to map a later event
C7_SkippedThenMapped ==
    \E e, d \in DOMAIN noaa_events :
        e < d /\ run_log[e] = "skipped" /\ run_log[d] = "mapped"

(***************************************************************************)
(* Claims about the combined-index step.                                   *)
(***************************************************************************)
\* C9: no merge is run for an UNMAPPED event, and for an event with zero linked
\* individual indexes no merge is attempted, no object is written and no row is
\* created.
C9_NoMergeWithoutIndexes ==
    \A m \in merge_log : m.status # UNMAPPED /\ m.n_refs > 0

\* C10: each event has at most one event_reference_files row, and a row's storage
\* path is event_ref_files/noaa/<event id>.json of its own event.
C10_OneCombinedIndexPerEvent ==
    /\ \A e \in DOMAIN noaa_events :
          Cardinality({r \in event_reference_files : r.event_id = e}) <= 1
    /\ \A r \in event_reference_files :
          r.s3_path = <<"event_ref_files", "noaa", r.event_id>>

\* C10 witness: a row exists for an event whose merge ran again in a later run
C10_RowAfterRepeatedRun ==
    \E m \in merge_log :
        /\ m.again
        /\ \E r \in event_reference_files : r.event_id = m.event

(***************************************************************************)
(* checker/noaa.py: check_noaa.  The listing names one yearly file with    *)
(* its modification date; its CSV rows are the ones parse_noaa_csv keeps.  *)
(***************************************************************************)
FileDates == {1, 2}

CsvRow(i) ==
    [EVENT_TYPE |-> EventCatalog[i].noaa_product,
     BEGIN_DATE_TIME |-> EventCatalog[i].date_time_start,
     END_DATE_TIME |-> EventCatalog[i].date_time_end]

CsvFiles ==
    {[i \in 1..Cardinality(S) |-> CsvRow(Nth(S, i))] :
        S \in {T \in SUBSET {i \in 1..Len(EventCatalog) : EventCatalog[i].status = UNMAPPED} :
                  Cardinality(T) <= MaxEvents}}

\* checker/src/noaa_tools.py
extract_event_from_row(row) ==
    [noaa_product |-> row.EVENT_TYPE, date_time_start |-> row.BEGIN_DATE_TIME,
     date_time_end |-> row.END_DATE_TIME, status |-> UNMAPPED]

\* post_noaa_record
post_noaa_record(table, dto) ==
    table \cup {[id |-> NextId(table), file_year |-> dto.file_year,
                 last_modified |-> dto.last_modified]}

\* post_noaa_events: the rows are appended in order
post_noaa_events(table, new_events) == table \o new_events

Between == pc \in {"idle", "returned", "raised", "comb_returned", "comb_raised"}

\* a batch entry point that is neither the mapper nor the combiner starts and ends:
\* the locals of an earlier process are gone
FreshProcess ==
    /\ pc' = "idle"
    /\ start_date' = NULL
    /\ events_to_map' = <<>>
    /\ matching_nc_files' = <<>>
    /\ link_i' = 0
    /\ run_log' = [e \in DOMAIN noaa_events' |-> "none"]
    /\ mapped_files' = [e \in DOMAIN noaa_events' |->
                           IF e \in DOMAIN noaa_events THEN mapped_files[e] ELSE {}]
    /\ events' = <<>>
    /\ items' = <<>>
    /\ merge_log' = {}

\* lines 197-200, 163-179: the store holds no record, every listed file is ingested
CheckNoaaIngest(modified_date, csv) ==
    /\ Between
    /\ noaa_records = {}
    /\ noaa_records' = post_noaa_record(noaa_records,
                           [file_year |-> FileYear, last_modified |-> modified_date])
    /\ noaa_events' = post_noaa_events(noaa_events,
                          [i \in 1..Len(csv) |-> extract_event_from_row(csv[i])])
    /\ UNCHANGED <<nc_files, individual_reference_files, event_reference_files,
                   s3_objects, last_upsert, side_vars>>
    /\ FreshProcess

\* the record is posted, then the download, the parse or post_noaa_events raises;
\* check_noaa's except logs and returns
CheckNoaaIngestFails(modified_date) ==
    /\ Between
    /\ noaa_records = {}
    /\ noaa_records' = post_noaa_record(noaa_records,
                           [file_year |-> FileYear, last_modified |-> modified_date])
    /\ UNCHANGED <<noaa_events, nc_files, individual_reference_files,
                   event_reference_files, s3_objects, last_upsert, side_vars>>
    /\ FreshProcess

\* lines 205-231: records exist; a modified file or none, both branches are "pass"
CheckNoaaNoChange(modified_date) ==
    /\ Between
    /\ noaa_records # {}
    /\ UNCHANGED <<store, s3_objects, last_upsert, side_vars>>
    /\ FreshProcess

CheckNoaa ==
    \/ \E d \in FileDates, csv \in CsvFiles : CheckNoaaIngest(d, csv)
    \/ \E d \in FileDates : CheckNoaaIngestFails(d)
    \/ \E d \in FileDates : CheckNoaaNoChange(d)

(***************************************************************************)
(* kerchunker/src/kerchunk_tools.py: the individual indexes                *)
(***************************************************************************)
\* shared/tools.py parse_file_datetime: the timestamp in a raw file's name, or the
\* marker for None
parse_file_datetime(nc_path) == IF nc_path[2] < 0 THEN Unparseable ELSE nc_path[2]

\* NcFileDTO(...) of lines 100-105 and 130
NcFileDTO(nc_path, reference_file_id) ==
    [s3_path |-> nc_path, date_time |-> parse_file_datetime(nc_path),
     product |-> nc_path[1], event_id |-> NULL, reference_file_id |-> reference_file_id]

\* the id RETURNING gives for the row under a path
ReturnedId(table, path) == (CHOOSE r \in RowsAt(table, path) : TRUE).id

\* lines 99-108: 1. upsert the NcFile without reference_file_id
FlushStep1(tables, nc_path) ==
    <<upsert_nc_file_in_session(tables[1], NcFileDTO(nc_path, NULL)), tables[2]>>

\* lines 114-124: 2. upsert the reference file with nc_file_id
FlushStep2(tables, nc_path) ==
    <<tables[1],
      upsert_individual_ref_file_in_session(tables[2],
          [s3_path |-> RefPath(nc_path), date_time |-> parse_file_datetime(nc_path),
           product |-> nc_path[1], event_id |-> NULL,
           nc_file_id |-> ReturnedId(tables[1], nc_path)])>>

FlushStep3Skipped(tables, nc_path) == tables
\* lines 129-131: 3. update the nc_file with reference_file_id
FlushStep3(tables, nc_path) ==
    <<upsert_nc_file_in_session(tables[1],
          NcFileDTO(nc_path, ReturnedId(tables[2], RefPath(nc_path)))),
      tables[2]>>

\* the session's tables after the first n statements of an item
StepsDone(tables, nc_path, n) ==
    CASE n = 0 -> tables
      [] n = 1 -> FlushStep1(tables, nc_path)
      [] n = 2 -> FlushStep2(FlushStep1(tables, nc_path), nc_path)
      [] OTHER -> FlushStep3(FlushStep2(FlushStep1(tables, nc_path), nc_path), nc_path)

\* lines 95-131: the three upserts of one (ref_path, nc_path), on <<nc_files,
\* individual_reference_files>>
BatchUpsertRefsItem(tables, nc_path) == StepsDone(tables, nc_path, 3)

\* statement 3 would give two raw files the same index
Step3Conflict(tables, nc_path) ==
    LET t == StepsDone(tables, nc_path, 2)
    IN NcFileConflict(t[1], NcFileDTO(nc_path, ReturnedId(t[2], RefPath(nc_path))))

CommitIgnoringAbort(committed, written, aborted) == written
\* session.commit() of session_scope.  PostgreSQL aborts the transaction at the first
\* statement that fails: it rejects every later statement and answers COMMIT by
\* rolling back
CommitResult(committed, written, aborted) == IF aborted THEN committed ELSE written

BadName == <<Products[1], Unparseable>>
FlushKeys == RegistryKeys \cup {BadName}

RECURSIVE SeqByRank(_)
\* a listing in key order
SeqByRank(S) ==
    IF S = {} THEN <<>>
    ELSE LET m == CHOOSE x \in S : \A y \in S : KeyRank(x) <= KeyRank(y)
         IN <<m>> \o SeqByRank(S \ {m})

FlushBatches == {SeqByRank(S) : S \in (SUBSET FlushKeys) \ {{}}}

\* lines 88-93: the batch and its session
FlushStart(batch) ==
    /\ pc = "idle"
    /\ session' = [open |-> TRUE, aborted |-> FALSE, nc |-> nc_files,
                   ref |-> individual_reference_files, nc0 |-> nc_files,
                   ref0 |-> individual_reference_files]
    /\ flush_items' = batch
    /\ flush_log' = <<>>
    /\ pc' = "flush"
    /\ UNCHANGED <<store, mapper_vars, combiner_vars, last_upsert, not_flush>>

FlushLogged(outcome, step) ==
    /\ flush_log' = Append(flush_log,
                        [path |-> Head(flush_items), outcome |-> outcome, step |-> step])
    /\ flush_items' = Tail(flush_items)
    /\ UNCHANGED <<store, pc, mapper_vars, combiner_vars, last_upsert, not_flush>>

\* lines 95-133: the three statements of the item succeed
FlushItem ==
    /\ pc = "flush"
    /\ flush_items # <<>>
    /\ parse_file_datetime(Head(flush_items)) # Unparseable
    /\ ~session.aborted
    /\ ~Step3Conflict(<<session.nc, session.ref>>, Head(flush_items))
    /\ LET t == BatchUpsertRefsItem(<<session.nc, session.ref>>, Head(flush_items))
       IN session' = [session EXCEPT !.nc = t[1], !.ref = t[2]]
    /\ FlushLogged("ok", 3)

\* lines 96-105, 135-139: date_time is None, NcFileDTO raises before any statement;
\* the except branch logs
FlushItemInvalid ==
    /\ pc = "flush"
    /\ flush_items # <<>>
    /\ parse_file_datetime(Head(flush_items)) = Unparseable
    /\ UNCHANGED session
    /\ FlushLogged("invalid", 0)

\* statement `step` of the item fails in the store (a constraint, a store failure, or
\* the transaction is aborted already); the except branch logs
FlushItemFails(step) ==
    /\ pc = "flush"
    /\ flush_items # <<>>
    /\ parse_file_datetime(Head(flush_items)) # Unparseable
    /\ session.aborted => step = 1
    /\ LET t == StepsDone(<<session.nc, session.ref>>, Head(flush_items), step - 1)
       IN session' = [session EXCEPT !.nc = t[1], !.ref = t[2], !.aborted = TRUE]
    /\ FlushLogged("failed", step)

\* session_scope: the batch is exhausted, commit
FlushCommit ==
    /\ pc = "flush"
    /\ flush_items = <<>>
    /\ nc_files' = CommitResult(nc_files, session.nc, session.aborted)
    /\ individual_reference_files' =
           CommitResult(individual_reference_files, session.ref, session.aborted)
    /\ session' = [session EXCEPT !.open = FALSE]
    /\ pc' = "flushed"
    /\ UNCHANGED <<noaa_records, noaa_events, event_reference_files, mapper_vars,
                   combiner_vars, last_upsert, flush_items, flush_log, not_flush>>

\* session_scope: the commit raises, rollback, re-raise
FlushCommitFails ==
    /\ pc = "flush"
    /\ flush_items = <<>>
    /\ nc_files' = AfterRollback(nc_files, session.nc)
    /\ individual_reference_files' = AfterRollback(individual_reference_files, session.ref)
    /\ session' = [session EXCEPT !.open = FALSE]
    /\ pc' = "flush_raised"
    /\ UNCHANGED <<noaa_records, noaa_events, event_reference_files, mapper_vars,
                   combiner_vars, last_upsert, flush_items, flush_log, not_flush>>

batch_upsert_refs ==
    \/ \E batch \in FlushBatches : FlushStart(batch)
    \/ FlushItem
    \/ FlushItemInvalid
    \/ \E step \in 1..3 : FlushItemFails(step)
    \/ FlushCommit
    \/ FlushCommitFails

\* a registry holding some of the raw files, some of them indexed, before the batch
InitFlush ==
    /\ noaa_events = <<EventCatalog[1], EventCatalog[2]>>
    /\ noaa_records = {[id |-> 1, file_year |-> FileYear, last_modified |-> 1]}
    /\ \E c \in {d \in InitialFiles : d[1] \subseteq RegistryKeys} :
          /\ nc_files = {NcRow(k, c[1], c[2]) : k \in c[1]}
          /\ individual_reference_files = {RefRow(k, c[1]) : k \in c[2]}
    /\ event_reference_files = {}
    /\ s3_objects = {}
    /\ pc = "idle"
    /\ start_date = NULL
    /\ events_to_map = <<>>
    /\ matching_nc_files = <<>>
    /\ link_i = 0
    /\ run_log = NoLog
    /\ mapped_files = [e \in DOMAIN noaa_events |-> {}]
    /\ events = <<>>
    /\ items = <<>>
    /\ merge_log = {}
    /\ last_upsert = NoUpsert
    /\ SideInit

SpecFlush == InitFlush /\ [][batch_upsert_refs]_vars

\* main.generate_individual_ref_files: list_files(..., "rainfall/**/*.nc"); the
\* bucket holds the raw files the uploader stored and registered
ListedFiles == {f.s3_path : f \in {g \in nc_files : g.product = "rainfall"}}

\* process_reference_files over a listing.  Each task of phase 1 builds the index and
\* writes the object, then _sync_generate_json_reference evaluates logger.info (line
\* 65) where the module binds no name logger: the task raises NameError, gather
\* re-raises it and phase 2 (line 157) is not reached
ProcessReferenceFiles(files) ==
    /\ Between
    /\ files # {}
    /\ s3_objects' = s3_objects \cup {RefPath(k) : k \in files}
    /\ UNCHANGED <<store, last_upsert, side_vars>>
    /\ FreshProcess

GenerateIndividualRefFiles == ProcessReferenceFiles(ListedFiles)

NextPipeline == Next \/ CheckNoaa \/ GenerateIndividualRefFiles

\* the pipeline is followed over the product the index builder lists
InitPipeline ==
    /\ Init
    /\ \A f \in nc_files : f.s3_path \in ListedFiles

SpecPipeline == InitPipeline /\ [][NextPipeline]_vars

(***************************************************************************)
(* Claims about the event status.                                          *)
(***************************************************************************)
\* C8: in every step of the checker, the mapper, the index builder and the combiner
\* no event disappears, an event that appears has status UNMAPPED, and an event's
\* status either stays, goes from UNMAPPED to MAPPED, or becomes MODIFIED.
C8_StatusTransitions ==
    [][/\ DOMAIN noaa_events \subseteq DOMAIN noaa_events'
       /\ \A e \in DOMAIN noaa_events' :
             IF e \in DOMAIN noaa_events
             THEN \/ noaa_events'[e].status = noaa_events[e].status
                  \/ noaa_events[e].status = UNMAPPED /\ noaa_events'[e].status = MAPPED
                  \/ noaa_events'[e].status = MODIFIED
             ELSE noaa_events'[e].status = UNMAPPED]_vars

\* C8 witness: a mapper run over a store holding a MODIFIED event has returned
\* after mapping another event and linking a raw file to it
C8_MappedNextToModified ==
    /\ pc = "returned"
    /\ \E e, d \in DOMAIN noaa_events :
          /\ noaa_events[e].status = MODIFIED
          /\ noaa_events[d].status = MAPPED
          /\ run_log[d] = "mapped"
          /\ \E f \in nc_files : f.event_id = d

(***************************************************************************)
(* Claims about the registry.                                              *)
(***************************************************************************)
TableOf(name) ==
    CASE name = "nc_files" -> nc_files
      [] name = "individual_reference_files" -> individual_reference_files
      [] name = "event_reference_files" -> event_reference_files
      [] OTHER -> {}

\* C5: in each of nc_files, individual_reference_files and event_reference_files no
\* two rows share an s3_path, and after an upsert that returned, the one row under
\* the call's s3_path carries the call's payload and, when a row was there before
\* the call, the id that row had.
C5_UpsertIdempotent ==
    /\ \A name \in {"nc_files", "individual_reference_files", "event_reference_files"} :
          \A r1, r2 \in TableOf(name) : r1.s3_path = r2.s3_path => r1 = r2
    /\ last_upsert.ok =>
          LET rows == RowsAt(TableOf(last_upsert.table), last_upsert.s3_path)
          IN /\ Cardinality(rows) = 1
             /\ \A r \in rows :
                   /\ PayloadOf(last_upsert.table, r) = last_upsert.dto
                   /\ last_upsert.before_id # NULL => r.id = last_upsert.before_id

\* C5 witness: a second upsert under a path that held a row, with another payload,
\* returned, in a table holding a second row
C5_SecondCallOtherPayload ==
    /\ last_upsert.ok
    /\ last_upsert.table = "nc_files"
    /\ last_upsert.before_id # NULL
    /\ last_upsert.before # last_upsert.dto
    /\ Cardinality(nc_files) = 2

(***************************************************************************)
(* Claims about the registry flush of the index builder.                   *)
(***************************************************************************)
\* the raw file under nc_path and its index are linked 1:1 in the two tables
LinkedOneToOne(nc, ref, nc_path) ==
    /\ Cardinality(RowsAt(nc, nc_path)) = 1
    /\ Cardinality(RowsAt(ref, RefPath(nc_path))) = 1
    /\ \A f \in RowsAt(nc, nc_path) : \A r \in RowsAt(ref, RefPath(nc_path)) :
          /\ f.ref_file_id = r.id
          /\ r.nc_file_id = f.id
          /\ \A g \in nc : g.ref_file_id = r.id => g = f

OkItems == {flush_log[i].path : i \in {j \in 1..Len(flush_log) : flush_log[j].outcome = "ok"}}
NotOkItems ==
    {flush_log[i].path : i \in {j \in 1..Len(flush_log) : flush_log[j].outcome # "ok"}}

\* C11: every item batch_upsert_refs processed without error has its raw-file row and
\* its index row linked 1:1 in both directions, no other raw file naming the index:
\* in the session while the batch runs, and in the store once the session committed.
C11_ItemLinkedBothWays ==
    \A k \in OkItems :
        /\ (pc = "flush" /\ ~session.aborted) => LinkedOneToOne(session.nc, session.ref, k)
        /\ (pc = "flushed" /\ ~session.aborted) =>
               LinkedOneToOne(nc_files, individual_reference_files, k)

\* C11 witness: a committed batch of two items, one of them a raw file that was
\* registered and indexed before
C11_TwoItemsCommitted ==
    /\ pc = "flushed"
    /\ ~session.aborted
    /\ Cardinality(OkItems) = 2
    /\ \E k \in OkItems : RowsAt(session.ref0, RefPath(k)) # {}
    /\ \E k \in OkItems : RowsAt(session.nc0, k) = {}

\* C12: when the batch is over, an item that failed or was skipped has left nothing
\* in the store: the rows under its raw path and its index path are the rows the
\* store held before the batch.
C12_FailedItemLeavesNothing ==
    pc \in {"flushed", "flush_raised"} =>
        \A k \in NotOkItems :
            /\ RowsAt(nc_files, k) = RowsAt(session.nc0, k)
            /\ RowsAt(individual_reference_files, RefPath(k)) =
                   RowsAt(session.ref0, RefPath(k))

\* C12 witness: the batch committed after an item's second or third statement failed
\* with the item's first statement applied in the session
C12_FailedAfterFirstStep ==
    /\ pc = "flushed"
    /\ \E i \in 1..Len(flush_log) :
          /\ flush_log[i].outcome = "failed"
          /\ flush_log[i].step > 1
          /\ RowsAt(session.nc, flush_log[i].path) # RowsAt(session.nc0, flush_log[i].path)

\* C13: when the batch's session has committed, every item of the batch that was
\* processed without error is persisted, whatever happened to the other items.
C13_OtherItemsPersisted ==
    pc = "flushed" =>
        \A k \in OkItems : LinkedOneToOne(nc_files, individual_reference_files, k)

(***************************************************************************)
(* shared/tools.py parse_file_datetime_infer_simple on its own: one call   *)
(* on one file name.                                                       *)
(***************************************************************************)
ParseName ==
    /\ parse_result = NotCalled
    /\ parse_result' = parse_file_datetime_infer_simple(parse_name)
    /\ UNCHANGED <<store, pc, mapper_vars, combiner_vars, last_upsert, parse_name, not_parse>>

\* nothing stored, no batch job running
IdleOverEmptyStore ==
    /\ noaa_events = <<>>
    /\ noaa_records = {}
    /\ nc_files = {}
    /\ individual_reference_files = {}
    /\ event_reference_files = {}
    /\ s3_objects = {}
    /\ pc = "idle"
    /\ start_date = NULL
    /\ events_to_map = <<>>
    /\ matching_nc_files = <<>>
    /\ link_i = 0
    /\ run_log = NoLog
    /\ mapped_files = [e \in DOMAIN noaa_events |-> {}]
    /\ events = <<>>
    /\ items = <<>>
    /\ merge_log = {}
    /\ last_upsert = NoUpsert

InitParse ==
    /\ parse_name \in FileNames
    /\ parse_result = NotCalled
    /\ IdleOverEmptyStore
    /\ FlushIdle
    /\ SemIdle
    /\ UploadIdle
    /\ ScopeIdle
    /\ CheckedIdle
    /\ DamageIdle
    /\ RunsIdle
    /\ Phase2Idle
    /\ CpuIdle
    /\ LookupIdle
    /\ RerunIdle
    /\ DatesIdle

SpecParse == InitParse /\ [][ParseName]_vars

\* the timestamp the three patterns give, tried in the documented order, for a
\* name already stripped of ".json"
HailName(name) == Len(name) = 1 /\ name[1] \in {StampPart("COMPOSITE_", HailLayout, t) : t \in NameStamps}
SingleRadarName(name) == Len(name) >= 2 /\ name[2] \in {StampPart("tx-", HailLayout, t) : t \in NameStamps}
RainfallName(name) == Len(name) = 1 /\ name[1] \in {StampPart("", RainfallLayout, t) : t \in NameStamps}

\* C15: parse_file_datetime_infer_simple never raises, whatever the file name: a
\* name none of the three patterns matches, one that contains "tx-" and has no
\* second dot-separated part included, gives the marker None
C15_NeverRaises ==
    parse_result # NotCalled =>
        /\ parse_result.raised = ""
        /\ LET base_name == removesuffix_json(parse_name)
           IN ~(HailName(base_name) \/ SingleRadarName(base_name) \/ RainfallName(base_name))
                  => parse_result.value = Unparseable

(***************************************************************************)
(* The combiner over a store whose individual indexes are linked to events *)
(* and where the name of an index may be in no timestamp layout: the       *)
(* registry holds the name and the time of a file in separate columns.     *)
(***************************************************************************)
MergeKeys == {<<Products[1], 15>>, <<Products[1], 30>>, BadName}
MappedEvent(i) == [EventCatalog[i] EXCEPT !.status = MAPPED]
RowTime(k) == IF k = BadName THEN 15 ELSE k[2]

InitMerge ==
    /\ noaa_events = <<MappedEvent(1), MappedEvent(2)>>
    /\ noaa_records = {[id |-> 1, file_year |-> FileYear, last_modified |-> 1]}
    /\ \E a \in [MergeKeys -> {NULL, 1, 2}] :
          /\ nc_files = {[NcRow(k, MergeKeys, MergeKeys) EXCEPT
                              !.event_id = a[k], !.date_time = RowTime(k)] : k \in MergeKeys}
          /\ individual_reference_files =
                 {[RefRow(k, MergeKeys) EXCEPT
                      !.event_id = a[k], !.date_time = RowTime(k)] : k \in MergeKeys}
    /\ event_reference_files = {}
    /\ s3_objects = {}
    /\ pc = "idle"
    /\ start_date = NULL
    /\ events_to_map = <<>>
    /\ matching_nc_files = <<>>
    /\ link_i = 0
    /\ run_log = NoLog
    /\ mapped_files = [e \in DOMAIN noaa_events |-> {}]
    /\ events = <<>>
    /\ items = <<>>
    /\ merge_log = {}
    /\ last_upsert = NoUpsert
    /\ SideInit

SpecMerge == InitMerge /\ [][GenerateEventRefFiles]_vars

HasUnparseable(e) ==
    \E r \in get_individual_ref_files(e) : fn_to_datetime(r.s3_path).raised # ""
HasParseable(e) ==
    \E r \in get_individual_ref_files(e) : fn_to_datetime(r.s3_path).raised = ""

\* C14: when an event has an individual index whose file name holds no parseable
\* timestamp and another whose name parses, the merge of the event does not raise
\* on the name, and a run that returned has persisted the combined index of every
\* merged event that has an index with a parseable name
C14_UnparseableExcluded ==
    /\ \A m \in merge_log : HasParseable(m.event) => m.error # "ValueError"
    /\ pc = "comb_returned" =>
           \A m \in merge_log :
               HasParseable(m.event) => \E r \in event_reference_files : r.event_id = m.event

(***************************************************************************)
(* Phase 1 of process_reference_files (kerchunk_tools.py) and of           *)
(* process_event_ref_files (kerchunk_event_refs.py): one task per file or  *)
(* event, each inside "async with semaphore", all handed to                *)
(* asyncio.gather.  The semaphore is created with os.cpu_count() or 4      *)
(* slots.                                                                  *)
(***************************************************************************)
SemaphoreSlots == 2
MaxTasks == 4
Units == {"process_reference_files", "process_event_ref_files"}

\* asyncio.Semaphore.locked()
locked_never(value) == FALSE
locked(value) == value = 0

\* tasks inside "async with semaphore"
InProgress == {t \in DOMAIN task_pc : task_pc[t] \in {"query", "build"}}

\* the task list is built and gather awaited
GatherStart(u, n) ==
    /\ gather = "none"
    /\ unit' = u
    /\ semaphore' = SemaphoreSlots
    /\ task_pc' = [t \in 1..n |-> "waiting"]
    /\ gather' = "pending"
    /\ UNCHANGED <<store, pc, mapper_vars, combiner_vars, last_upsert, not_sem>>

\* async with semaphore: acquire.  An event's task first reads the event's
\* individual indexes in a session of its own.
TaskAcquire(t) ==
    /\ task_pc[t] = "waiting"
    /\ ~locked(semaphore)
    /\ semaphore' = semaphore - 1
    /\ task_pc' = [task_pc EXCEPT ![t] =
                       IF unit = "process_event_ref_files" THEN "query" ELSE "build"]
    /\ UNCHANGED <<store, pc, mapper_vars, combiner_vars, last_upsert, not_sem, unit, gather>>

\* kerchunk_event_refs.py lines 133-136: the query returned
TaskQueried(t) ==
    /\ task_pc[t] = "query"
    /\ task_pc' = [task_pc EXCEPT ![t] = "build"]
    /\ UNCHANGED <<store, pc, mapper_vars, combiner_vars, last_upsert, not_sem,
                   unit, semaphore, gather>>

\* the worker thread returned: the task leaves "async with semaphore" with its
\* result.  _sync_generate_json_reference never returns (line 65 raises).
TaskFinish(t) ==
    /\ task_pc[t] = "build"
    /\ unit = "process_event_ref_files"
    /\ semaphore' = semaphore + 1
    /\ task_pc' = [task_pc EXCEPT ![t] = "done"]
    /\ UNCHANGED <<store, pc, mapper_vars, combiner_vars, last_upsert, not_sem, unit, gather>>

\* the query or the worker thread raised: the exception leaves
\* "async with semaphore", which releases the slot
TaskFail(t) ==
    /\ task_pc[t] \in {"query", "build"}
    /\ semaphore' = semaphore + 1
    /\ task_pc' = [task_pc EXCEPT ![t] = "failed"]
    /\ UNCHANGED <<store, pc, mapper_vars, combiner_vars, last_upsert, not_sem, unit, gather>>

\* a wait that ends with the first task that returns
first_completed(statuses) == \E t \in DOMAIN statuses : statuses[t] = "done"
\* items = await asyncio.gather(*tasks): the results of all the tasks
gathered(statuses) == \A t \in DOMAIN statuses : statuses[t] = "done"

\* gather: every task returned, phase 2 follows
GatherReturn ==
    /\ gather = "pending"
    /\ gathered(task_pc)
    /\ gather' = "returned"
    /\ UNCHANGED <<store, pc, mapper_vars, combiner_vars, last_upsert, not_sem,
                   unit, semaphore, task_pc>>

\* gather: the first exception of a task is raised to the caller; the other tasks
\* are not cancelled by gather
GatherRaise ==
    /\ gather = "pending"
    /\ \E t \in DOMAIN task_pc : task_pc[t] = "failed"
    /\ gather' = "raised"
    /\ UNCHANGED <<store, pc, mapper_vars, combiner_vars, last_upsert, not_sem,
                   unit, semaphore, task_pc>>

\* batch_handle_event_ref_files, kerchunk_event_refs.py lines 84-123, called with
\* the gathered items: item t is (EventRefPath(t), t).  batch_upsert_refs of
\* kerchunk_tools.py has the same loop; process_reference_files never reaches it.
BatchSize == 2
BatchEnd(b) == IF b * BatchSize < Len(task_pc) THEN b * BatchSize ELSE Len(task_pc)

\* lines 92-97: the next batch is cut and its session opened
BatchOpen ==
    /\ gather = "returned"
    /\ phase2.pc \in {"none", "between"}
    /\ phase2.next <= Len(task_pc)
    /\ phase2' = [phase2 EXCEPT !.pc = "in_session", !.batch = @ + 1, !.aborted = FALSE,
                                !.written = event_reference_files]
    /\ UNCHANGED <<store, pc, mapper_vars, combiner_vars, last_upsert, not_phase2>>

\* lines 98-120: one item of the batch is written in the session
BatchItem ==
    /\ phase2.pc = "in_session"
    /\ phase2.next <= BatchEnd(phase2.batch)
    /\ phase2' = [phase2 EXCEPT
                      !.next = @ + 1,
                      !.written = IF phase2.aborted THEN @
                                  ELSE HandleEventRefItem(@, <<EventRefPath(phase2.next),
                                                               phase2.next>>)]
    /\ UNCHANGED <<store, pc, mapper_vars, combiner_vars, last_upsert, not_phase2>>

\* lines 122-123: a statement of the item fails, the error is logged and the loop
\* goes on in the same session
BatchItemFails ==
    /\ phase2.pc = "in_session"
    /\ phase2.next <= BatchEnd(phase2.batch)
    /\ phase2' = [phase2 EXCEPT !.next = @ + 1, !.aborted = TRUE]
    /\ UNCHANGED <<store, pc, mapper_vars, combiner_vars, last_upsert, not_phase2>>

\* the batch is exhausted: session_scope commits and closes the session
BatchClose ==
    /\ phase2.pc = "in_session"
    /\ phase2.next > BatchEnd(phase2.batch)
    /\ event_reference_files' =
           CommitResult(event_reference_files, phase2.written, phase2.aborted)
    /\ phase2' = [phase2 EXCEPT !.pc = IF phase2.next > Len(task_pc) THEN "returned"
                                       ELSE "between",
                                !.written = {}]
    /\ UNCHANGED <<noaa_records, noaa_events, nc_files, individual_reference_files,
                   pc, mapper_vars, combiner_vars, last_upsert, not_phase2>>

\* the commit fails: session_scope rolls back and the exception ends the run
BatchCommitFails ==
    /\ phase2.pc = "in_session"
    /\ phase2.next > BatchEnd(phase2.batch)
    /\ phase2' = [phase2 EXCEPT !.pc = "raised", !.written = {}]
    /\ UNCHANGED <<store, pc, mapper_vars, combiner_vars, last_upsert, not_phase2>>

Phase1 ==
    \/ BatchOpen
    \/ BatchItem
    \/ BatchItemFails
    \/ BatchClose
    \/ BatchCommitFails
    \/ \E u \in Units, n \in 1..MaxTasks : GatherStart(u, n)
    \/ \E t \in DOMAIN task_pc : TaskAcquire(t)
    \/ \E t \in DOMAIN task_pc : TaskQueried(t)
    \/ \E t \in DOMAIN task_pc : TaskFinish(t)
    \/ \E t \in DOMAIN task_pc : TaskFail(t)
    \/ GatherReturn
    \/ GatherRaise

\* a store of MAPPED events, one per task; no registry row yet
InitPhase1 ==
    /\ noaa_events = [i \in 1..MaxTasks |-> MappedEvent(IF i % 2 = 1 THEN 1 ELSE 4)]
    /\ noaa_records = {[id |-> 1, file_year |-> FileYear, last_modified |-> 1]}
    /\ nc_files = {}
    /\ individual_reference_files = {}
    /\ event_reference_files = {}
    /\ s3_objects = {}
    /\ pc = "idle"
    /\ start_date = NULL
    /\ events_to_map = <<>>
    /\ matching_nc_files = <<>>
    /\ link_i = 0
    /\ run_log = NoLog
    /\ mapped_files = [e \in DOMAIN noaa_events |-> {}]
    /\ events = <<>>
    /\ items = <<>>
    /\ merge_log = {}
    /\ last_upsert = NoUpsert
    /\ SideInit

SpecPhase1 == InitPhase1 /\ [][Phase1]_vars

\* C16: under every interleaving of the gathered tasks, at most SemaphoreSlots
\* builds (or merges) are in progress at the same time, and every slot not held by
\* a task in progress is free: a task that finished or failed holds none
C16_AtMostNInProgress ==
    gather # "none" =>
        /\ Cardinality(InProgress) <= SemaphoreSlots
        /\ semaphore = SemaphoreSlots - Cardinality(InProgress)

\* C16 witness: every slot is taken, a task waits, and a task that failed earlier
\* has given its slot back
C16_FullWithOneWaitingAfterFailure ==
    /\ Cardinality(InProgress) = SemaphoreSlots
    /\ \E t \in DOMAIN task_pc : task_pc[t] = "waiting"
    /\ \E t \in DOMAIN task_pc : task_pc[t] = "failed"

(***************************************************************************)
(* uploader/uploader.py upload_file, with post_nc_file and                 *)
(* log_failed_upload of uploader/src/db_tools.py.  A file is named by its  *)
(* key: the remote path and the storage key are both made from it.         *)
(***************************************************************************)
retry_attempts == 3
UploadErrors == {"error 1", "error 2"}

\* post_nc_file, lines 191-201: a plain INSERT; s3_path is unique
post_nc_file(table, k) ==
    table \cup {[id |-> NextId(table), s3_path |-> k, date_time |-> k[2], product |-> k[1],
                 event_id |-> NULL, ref_file_id |-> NULL]}

\* log_failed_upload, lines 158-179: INSERT ... ON CONFLICT (remote_path) DO UPDATE
\* SET last_error, last_attempt
log_failed_upload(table, dto) ==
    IF \E r \in table : r.remote_path = dto.remote_path
    THEN {IF r.remote_path = dto.remote_path
          THEN [r EXCEPT !.last_error = dto.last_error] ELSE r : r \in table}
    ELSE table \cup {[id |-> NextId(table), remote_path |-> dto.remote_path,
                      product |-> dto.product, last_error |-> dto.last_error]}

FailedUploadDTO(k, e) == [remote_path |-> k, product |-> k[1], last_error |-> e]

\* lines 87-89: the call starts its loop
UploadFileStart(k) ==
    /\ upload.pc # "attempt"
    /\ upload' = [pc |-> "attempt", remote_file_path |-> k, attempt |-> 0, tried |-> 0,
                  ok |-> FALSE, failed_uploads0 |-> failed_uploads,
                  registered |-> RowsAt(nc_files, k) # {}]
    /\ UNCHANGED <<store, pc, mapper_vars, combiner_vars, last_upsert, not_upload,
                   failed_uploads>>

\* lines 91-109: the attempt transfers the file and registers it, break
AttemptSucceeds ==
    /\ upload.pc = "attempt"
    /\ RowsAt(nc_files, upload.remote_file_path) = {}
    /\ nc_files' = post_nc_file(nc_files, upload.remote_file_path)
    /\ upload' = [upload EXCEPT !.pc = "returned", !.tried = @ + 1, !.ok = TRUE]
    /\ UNCHANGED <<noaa_records, noaa_events, individual_reference_files,
                   event_reference_files, pc, mapper_vars, combiner_vars, last_upsert,
                   not_upload, failed_uploads>>

\* lines 110-111: an attempt that is not the last raises; next attempt
AttemptFails ==
    /\ upload.pc = "attempt"
    /\ upload.attempt < retry_attempts - 1
    /\ upload' = [upload EXCEPT !.attempt = @ + 1, !.tried = @ + 1]
    /\ UNCHANGED <<store, pc, mapper_vars, combiner_vars, last_upsert, not_upload,
                   failed_uploads>>

\* lines 111-124: the last attempt raises, the failure is recorded, the loop ends
LastAttemptFails(e) ==
    /\ upload.pc = "attempt"
    /\ upload.attempt = retry_attempts - 1
    /\ failed_uploads' =
           log_failed_upload(failed_uploads, FailedUploadDTO(upload.remote_file_path, e))
    /\ upload' = [upload EXCEPT !.pc = "returned", !.tried = @ + 1]
    /\ UNCHANGED <<store, pc, mapper_vars, combiner_vars, last_upsert, not_upload>>

\* lines 117-124: log_failed_upload raises inside the except branch (its session
\* rolls back and re-raises); nothing around the call catches it
LogFailedUploadRaises ==
    /\ upload.pc = "attempt"
    /\ upload.attempt = retry_attempts - 1
    /\ upload' = [upload EXCEPT !.pc = "raised", !.tried = @ + 1]
    /\ UNCHANGED <<store, pc, mapper_vars, combiner_vars, last_upsert, not_upload,
                   failed_uploads>>

upload_file ==
    \/ \E k \in RegistryKeys : UploadFileStart(k)
    \/ AttemptSucceeds
    \/ AttemptFails
    \/ \E e \in UploadErrors : LastAttemptFails(e)
    \/ LogFailedUploadRaises

\* a bucket that may hold the first file already, a failed_uploads table that may
\* hold a row of an earlier run
InitUpload ==
    /\ IdleOverEmptyStore
    /\ FlushIdle /\ ParseIdle /\ SemIdle /\ ScopeIdle /\ CheckedIdle
    /\ DamageIdle /\ RunsIdle /\ Phase2Idle /\ CpuIdle /\ LookupIdle /\ RerunIdle /\ DatesIdle
    /\ upload = NoUpload
    /\ \E S \in SUBSET RegistryKeys :
          failed_uploads = {[id |-> KeyId(k, S), remote_path |-> k, product |-> k[1],
                             last_error |-> "error 0"] : k \in S}

SpecUpload == InitUpload /\ [][upload_file]_vars

FailedRows(table) == {r \in table : r.remote_path = upload.remote_file_path}

\* C17: a call of upload_file that ended made at most 3 attempts and did not raise;
\* when an attempt succeeded it was the last one made and failed_uploads is as it
\* was; otherwise 3 attempts were made and failed_uploads holds exactly one row
\* for the remote path, the updated earlier row if there was one
C17_ThreeAttemptsThenRecorded ==
    upload.pc \in {"returned", "raised"} =>
        /\ upload.tried <= retry_attempts
        /\ upload.pc = "returned"
        /\ upload.ok => failed_uploads = upload.failed_uploads0
        /\ ~upload.ok =>
               /\ upload.tried = retry_attempts
               /\ Cardinality(FailedRows(failed_uploads)) = 1
               /\ \A r \in FailedRows(failed_uploads) :
                      /\ r.last_error \in UploadErrors
                      /\ \A o \in FailedRows(upload.failed_uploads0) : o.id = r.id
               /\ failed_uploads \ FailedRows(failed_uploads) =
                      upload.failed_uploads0 \ FailedRows(upload.failed_uploads0)

(***************************************************************************)
(* session_scope, as defined in mapper/src/db_tools.py,                    *)
(* kerchunker/src/db_tools.py and database/database.py: one unit of work   *)
(* that adds raw-file rows.                                                *)
(***************************************************************************)
ScopeDefinitions ==
    {"mapper/src/db_tools.py", "kerchunker/src/db_tools.py", "database/database.py"}

\* exceptions the body or the commit may raise; CancelledError is not an Exception
BodyExceptions == {"SQLAlchemyError", "CancelledError"}
IsException(e) == e # "CancelledError"

\* database/database.py line 40: logger.error(f"Session error: {e}") names an
\* unbound e; the other definitions log constants and the traceback
LogInExcept(definition, e) == IF definition = "database/database.py" THEN "NameError" ELSE e

\* what leaves "async with session_scope()" when e was raised inside it
RaisedOut(definition, e) == IF IsException(e) THEN LogInExcept(definition, e) ELSE e

\* the rows a unit of work may add
ScopeKeys == {<<Products[1], t>> : t \in {0, 15, 30}}

\* async with session_scope() as session
ScopeEnter(d) ==
    /\ scope.pc # "open"
    /\ scope' = [NoScope EXCEPT !.definition = d, !.pc = "open", !.committed0 = nc_files]
    /\ UNCHANGED <<store, pc, mapper_vars, combiner_vars, last_upsert, not_scope>>

\* the body adds a row to the session
ScopeAdd(k) ==
    /\ scope.pc = "open"
    /\ RowsAt(nc_files, k) = {}
    /\ k \notin scope.pending
    /\ scope' = [scope EXCEPT !.pending = @ \cup {k}]
    /\ UNCHANGED <<store, pc, mapper_vars, combiner_vars, last_upsert, not_scope>>

RECURSIVE PostAll(_, _)
PostAll(table, keys) ==
    IF keys = {} THEN table
    ELSE LET k == CHOOSE x \in keys : \A y \in keys : KeyRank(x) <= KeyRank(y)
         IN PostAll(post_nc_file(table, k), keys \ {k})

\* the body ends, await session.commit(), the session is closed
ScopeCommit ==
    /\ scope.pc = "open"
    /\ nc_files' = PostAll(nc_files, scope.pending)
    /\ scope' = [scope EXCEPT !.pc = "committed", !.pending = {}, !.closed = TRUE]
    /\ UNCHANGED <<noaa_records, noaa_events, individual_reference_files,
                   event_reference_files, pc, mapper_vars, combiner_vars, last_upsert,
                   not_scope>>

\* the body or the commit raises e: an Exception is handled by the except branch
\* (rollback, log, raise); any exception ends with the session closed, which
\* discards what was not committed
ScopeRaise(e) ==
    /\ scope.pc = "open"
    /\ nc_files' = AfterRollback(nc_files, PostAll(nc_files, scope.pending))
    /\ scope' = [scope EXCEPT !.pc = "raised", !.pending = {},
                              !.raised_in = e,
                              !.raised_out = RaisedOut(scope.definition, e),
                              !.rolled_back = TRUE, !.closed = TRUE]
    /\ UNCHANGED <<noaa_records, noaa_events, individual_reference_files,
                   event_reference_files, pc, mapper_vars, combiner_vars, last_upsert,
                   not_scope>>

session_scope ==
    \/ \E d \in ScopeDefinitions : ScopeEnter(d)
    \/ \E k \in ScopeKeys : ScopeAdd(k)
    \/ ScopeCommit
    \/ \E e \in BodyExceptions : ScopeRaise(e)

InitScope == IdleOverEmptyStore /\ SideInit

SpecScope == InitScope /\ [][session_scope]_vars

\* C18: a unit of work left by an exception has discarded its uncommitted
\* changes, closed its session and raised that same exception to its caller; the
\* store is as it was when the unit was entered
C18_RollbackCloseReraise ==
    scope.pc = "raised" =>
        /\ scope.rolled_back
        /\ scope.closed
        /\ scope.raised_out = scope.raised_in
        /\ nc_files = scope.committed0

(***************************************************************************)
(* checker/noaa.py check_noaa over a listing of several yearly files.      *)
(* file_dates maps each listed year to the modification date in the name   *)
(* of its file.                                                            *)
(***************************************************************************)
\* years = [str(i) for i in range(2016, today.year + 1)]
years == {FileYear, FileYear + 1}

Listings == UNION {[S -> FileDates] : S \in SUBSET years}

\* a link of the listing: the yearly file of a year with the date in its name, or a
\* link to something else
NoYearFile == [year |-> NULL, date |-> NULL]
Links == {[year |-> y, date |-> d] : y \in years, d \in FileDates} \cup {NoYearFile}
MaxLinks == 2
LinkLists == UNION {[1..n -> Links] : n \in 0..MaxLinks}

\* what the request of the listing does: it times out, it fails otherwise, or it
\* answers with a page of links
Responses ==
    {[raised |-> x, links |-> <<>>] : x \in {"TimeoutError", "ClientError"}}
        \cup {[raised |-> "", links |-> l] : l \in LinkLists}

\* the listing with no exception kept back: a failed request gives the links of an
\* earlier answer
get_noaa_links_stale(response) ==
    IF response.raised # "" THEN <<[year |-> FileYear, date |-> 1]>> ELSE response.links

\* lines 107-128: the links of the page; [] when the request times out or fails
get_noaa_links(response) ==
    IF response.raised # "" THEN <<>> ELSE response.links

\* lines 131-149: year -> the last link that names the file of that year
filter_year_files(links) ==
    LET listed == {links[i].year : i \in DOMAIN links} \ {NULL}
        last(y) == CHOOSE i \in DOMAIN links :
                       /\ links[i].year = y
                       /\ \A j \in DOMAIN links : links[j].year = y => j <= i
    IN [y \in listed |-> links[last(y)]]

\* lines 152-160: year -> the date in the name of its file
extract_file_dates(year_files) == [y \in DOMAIN year_files |-> year_files[y].date]

\* lines 188-191
ListedDates(response) == extract_file_dates(filter_year_files(get_noaa_links(response)))

\* the rows parse_noaa_csv keeps of the file of a year
YearCsv(year) == IF year = FileYear THEN <<CsvRow(1), CsvRow(2)>> ELSE <<CsvRow(4)>>
YearEvents(year) == [i \in 1..Len(YearCsv(year)) |-> extract_event_from_row(YearCsv(year)[i])]

RECURSIVE process_new_files(_, _, _, _)
\* lines 163-179: for each listed year, in order: the record, then its events;
\* stops after the record of year "failing" when that year's file cannot be read
process_new_files(tables, file_dates, todo, failing) ==
    IF todo = {} THEN tables
    ELSE LET year == CHOOSE y \in todo : \A z \in todo : y <= z
             posted == post_noaa_record(tables[1],
                           [file_year |-> year, last_modified |-> file_dates[year]])
         IN IF year = failing THEN <<posted, tables[2]>>
            ELSE process_new_files(
                     <<posted, post_noaa_events(tables[2], YearEvents(year))>>,
                     file_dates, todo \ {year}, failing)

\* lines 207-211
any_modified(db_files, file_dates) ==
    \E record \in db_files :
        /\ record.file_year \in DOMAIN file_dates
        /\ file_dates[record.file_year] # record.last_modified

CheckedAs(outcome, response) ==
    /\ checked' = [outcome |-> outcome, file_dates |-> ListedDates(response),
                   db_files |-> noaa_records, links |-> get_noaa_links(response),
                   raised |-> response.raised]
    /\ UNCHANGED <<nc_files, individual_reference_files, event_reference_files,
                   s3_objects, last_upsert, not_checked>>
    /\ FreshProcess

\* lines 200-202: no record in the store, every listed file is ingested
CheckNoaaProcessNew(response) ==
    /\ Between
    /\ noaa_records = {}
    /\ LET file_dates == ListedDates(response)
           t == process_new_files(<<noaa_records, noaa_events>>, file_dates,
                                  DOMAIN file_dates, NULL)
       IN noaa_records' = t[1] /\ noaa_events' = t[2]
    /\ CheckedAs("done", response)

\* the same, and the file of a year cannot be read or its events be posted: the
\* except of lines 236-239 logs and returns
CheckNoaaProcessNewFails(response, failing) ==
    /\ Between
    /\ noaa_records = {}
    /\ failing \in DOMAIN ListedDates(response)
    /\ LET file_dates == ListedDates(response)
           t == process_new_files(<<noaa_records, noaa_events>>, file_dates,
                                  DOMAIN file_dates, failing)
       IN noaa_records' = t[1] /\ noaa_events' = t[2]
    /\ CheckedAs("failed", response)

\* lines 207-228: records exist and a listed file has another date: "pass"
CheckNoaaModified(response) ==
    /\ Between
    /\ noaa_records # {}
    /\ any_modified(noaa_records, ListedDates(response))
    /\ UNCHANGED <<noaa_records, noaa_events>>
    /\ CheckedAs("done", response)

\* lines 230-234: records exist and no listed file has another date: "pass"
CheckNoaaUnchanged(response) ==
    /\ Between
    /\ noaa_records # {}
    /\ ~any_modified(noaa_records, ListedDates(response))
    /\ UNCHANGED <<noaa_records, noaa_events>>
    /\ CheckedAs("done", response)

check_noaa ==
    \/ \E response \in Responses : CheckNoaaProcessNew(response)
    \/ \E response \in Responses, y \in years : CheckNoaaProcessNewFails(response, y)
    \/ \E response \in Responses : CheckNoaaModified(response)
    \/ \E response \in Responses : CheckNoaaUnchanged(response)

\* a store that earlier runs of the checker left: records and events of some years
InitChecker ==
    /\ \E l \in Listings :
          LET t == process_new_files(<<{}, <<>>>>, l, DOMAIN l, NULL)
          IN noaa_records = t[1] /\ noaa_events = t[2]
    /\ nc_files = {}
    /\ individual_reference_files = {}
    /\ event_reference_files = {}
    /\ s3_objects = {}
    /\ pc = "idle"
    /\ start_date = NULL
    /\ events_to_map = <<>>
    /\ matching_nc_files = <<>>
    /\ link_i = 0
    /\ run_log = [e \in DOMAIN noaa_events |-> "none"]
    /\ mapped_files = [e \in DOMAIN noaa_events |-> {}]
    /\ events = <<>>
    /\ items = <<>>
    /\ merge_log = {}
    /\ last_upsert = NoUpsert
    /\ SideInit

SpecChecker == InitChecker /\ [][check_noaa]_vars

RecordsOf(table, year) == {r \in table : r.file_year = year}

\* C19: after a run of check_noaa that ended without error, every listed year that
\* had no NoaaRecord before the run has one, and the events of that year's file
\* are in the store as UNMAPPED, whether the store held records or not
C19_NewYearIngested ==
    checked.outcome = "done" =>
        \A year \in DOMAIN checked.file_dates :
            RecordsOf(checked.db_files, year) = {} =>
                /\ RecordsOf(noaa_records, year) # {}
                /\ Range(YearEvents(year)) \subseteq Range(noaa_events)

\* C20: after a run of check_noaa that ended without error, the record of every
\* listed year whose file carries another modification date than the stored one
\* holds the new date
C20_ModifiedDateStored ==
    checked.outcome = "done" =>
        \A year \in DOMAIN checked.file_dates :
            \A record \in RecordsOf(checked.db_files, year) :
                record.last_modified # checked.file_dates[year] =>
                    \E r \in RecordsOf(noaa_records, year) :
                        r.id = record.id /\ r.last_modified = checked.file_dates[year]

(***************************************************************************)
(* checker/src/noaa_tools.py process_damage.  A damage string is its last  *)
(* character and what precedes it; a numeral is written with two decimals  *)
(* and modelled by its number of hundredths.  float() and the product are  *)
(* IEEE-754 binary64 with round-to-nearest-even: a float is a sequence of  *)
(* at most 53 significant bits, most significant first, and the number of  *)
(* those bits that are fractional.                                         *)
(***************************************************************************)
MaxHundredths == 210
Significand == 53
\* the arithmetic goes by digits of 15 bits
DigitBits == 15
Radix == 2 ^ DigitBits

RECURSIVE ValueOf(_)
\* the number a sequence of bits writes
ValueOf(bits) ==
    IF Len(bits) = 0 THEN 0
    ELSE IF Len(bits) = 1 THEN bits[1]
    ELSE LET h == Len(bits) \div 2
         IN ValueOf(SubSeq(bits, 1, h)) * 2 ^ (Len(bits) - h)
                + ValueOf(SubSeq(bits, h + 1, Len(bits)))

\* a sequence of bits without its leading zeros
Stripped(bits) ==
    IF \A i \in DOMAIN bits : bits[i] = 0 THEN <<>>
    ELSE SubSeq(bits, CHOOSE i \in DOMAIN bits :
                          bits[i] = 1 /\ \A j \in 1..(i - 1) : bits[j] = 0,
                Len(bits))

\* the bits of a sequence of digits, and the digits of a sequence of bits
BitsOfDigits(digits) ==
    [i \in 1..(DigitBits * Len(digits)) |->
        (digits[(i - 1) \div DigitBits + 1]
            \div 2 ^ (DigitBits - 1 - ((i - 1) % DigitBits))) % 2]
DigitsOfBits(bits) ==
    LET n == (Len(bits) + DigitBits - 1) \div DigitBits
        padded == [i \in 1..(n * DigitBits - Len(bits)) |-> 0] \o bits
    IN [k \in 1..n |-> ValueOf(SubSeq(padded, (k - 1) * DigitBits + 1, k * DigitBits))]

\* bits + 1
Increment(bits) ==
    IF \A i \in DOMAIN bits : bits[i] = 1 THEN <<1>> \o [i \in DOMAIN bits |-> 0]
    ELSE LET z == CHOOSE i \in DOMAIN bits :
                      bits[i] = 0 /\ \A j \in (i + 1)..Len(bits) : bits[j] = 1
         IN [i \in DOMAIN bits |-> IF i < z THEN bits[i] ELSE IF i = z THEN 1 ELSE 0]

\* round-to-nearest-even of bits to the significand: the kept bits and how many
\* low bits were dropped
RoundBits(bits) ==
    IF Len(bits) <= Significand THEN [bits |-> bits, dropped |-> 0]
    ELSE LET kept == SubSeq(bits, 1, Significand)
             rest == SubSeq(bits, Significand + 1, Len(bits))
             up == /\ rest[1] = 1
                   /\ \/ \E i \in 2..Len(rest) : rest[i] = 1
                      \/ kept[Significand] = 1
             r == IF up THEN Increment(kept) ELSE kept
         IN IF Len(r) > Significand
            THEN [bits |-> SubSeq(r, 1, Significand), dropped |-> Len(rest) + 1]
            ELSE [bits |-> r, dropped |-> Len(rest)]

RECURSIVE Remainder(_, _)
\* long division of hundredths by 100: the remainder after k digits of the fraction
Remainder(hundredths, k) ==
    IF k = 0 THEN hundredths % 100 ELSE (Remainder(hundredths, k - 1) * Radix) % 100
FractionDigits == 5
\* the integer part and the first digits of the fraction
Quotient(hundredths) ==
    <<hundredths \div 100>>
        \o [k \in 1..FractionDigits |-> (Remainder(hundredths, k - 1) * Radix) \div 100]

\* float("a.bc"): the double nearest to hundredths / 100
float(hundredths) ==
    IF hundredths = 0 THEN [bits |-> <<>>, frac |-> 0]
    ELSE LET sticky == IF Remainder(hundredths, FractionDigits) > 0 THEN <<1>> ELSE <<>>
             r == RoundBits(Stripped(BitsOfDigits(Quotient(hundredths))) \o sticky)
         IN [bits |-> r.bits,
             frac |-> FractionDigits * DigitBits + Len(sticky) - r.dropped]

RECURSIVE Times1000(_, _, _)
\* digits * 1000, exactly: the digits from the i-th up, with the carry
Times1000(digits, i, carry) ==
    IF i = 0 THEN <<carry>>
    ELSE LET t == digits[i] * 1000 + carry
         IN IF t < Radix THEN Append(Times1000(digits, i - 1, 0), t)
            ELSE Append(Times1000(digits, i - 1, t \div Radix), t % Radix)

RECURSIVE TimesSmall(_, _)
\* bits * c, exactly, for c a power of 1000
TimesSmall(bits, c) ==
    IF c = 1 THEN bits
    ELSE LET digits == DigitsOfBits(bits)
         IN TimesSmall(Stripped(BitsOfDigits(Times1000(digits, Len(digits), 0))),
                       c \div 1000)

\* number * multiplier, rounded to a double
float_times(x, c) ==
    LET r == RoundBits(TimesSmall(x.bits, c))
    IN [bits |-> r.bits, frac |-> x.frac - r.dropped]

\* int(x) for a finite x >= 0: the fractional bits are cut off
int(x) ==
    IF x.frac >= Len(x.bits) THEN 0
    ELSE IF x.frac >= 0 THEN ValueOf(SubSeq(x.bits, 1, Len(x.bits) - x.frac))
    ELSE ValueOf(x.bits \o [i \in 1..(-x.frac) |-> 0])

\* {"K": 1000, "M": 1000000, "B": 1000000000}.get(damage_str[-1], 1)
multiplier(last) ==
    CASE last = "K" -> 1000 [] last = "M" -> 1000000 [] last = "B" -> 1000000000
      [] OTHER -> 1

Numeral(h) == [kind |-> "numeral", hundredths |-> h]
Text(kind) == [kind |-> kind, hundredths |-> 0]
EmptyString == [head |-> Text("empty"), last |-> ""]

\* "a.bcK", "a.bcM", "a.bcB"; "a.bc0" (digits only); "K", "abc", "1.5K " and "infK"
DamageStrings ==
    {[head |-> Numeral(h), last |-> c] : h \in 0..MaxHundredths, c \in {"K", "M", "B"}}
        \cup {[head |-> Numeral(h), last |-> "0"] : h \in {0, 100 * MaxHundredths}}
        \cup {[head |-> Text(k), last |-> c] : k \in {"empty", "not a number", "inf"},
                                                c \in {"K", " "}}
        \cup {EmptyString}

\* lines 28-36
process_damage(s) ==
    IF s = EmptyString \/ s = [head |-> Numeral(0), last |-> "K"] THEN Returned(0)
    ELSE CASE s.head.kind = "numeral" ->
                  Returned(int(float_times(float(s.head.hundredths), multiplier(s.last))))
           [] s.head.kind = "inf" -> Raised("OverflowError")
           [] OTHER -> Returned(0)

ProcessDamage ==
    /\ damage_result = NotCalled
    /\ damage_result' = process_damage(damage_str)
    /\ UNCHANGED <<store, pc, mapper_vars, combiner_vars, last_upsert, not_damage, damage_str>>

InitDamage ==
    /\ damage_str \in DamageStrings
    /\ damage_result = NotCalled
    /\ IdleOverEmptyStore
    /\ FlushIdle /\ ParseIdle /\ SemIdle /\ UploadIdle /\ ScopeIdle /\ CheckedIdle
    /\ RunsIdle /\ Phase2Idle /\ CpuIdle /\ LookupIdle /\ RerunIdle /\ DatesIdle

SpecDamage == InitDamage /\ [][ProcessDamage]_vars

\* a decimal number followed by K, M or B
WellFormed(s) == s.head.kind = "numeral" /\ s.last \in {"K", "M", "B"}

\* C21: process_damage never raises; a decimal number followed by K, M or B gives
\* the number times 1000, 1000000 or 1000000000 cut to whole dollars, and the empty
\* string and every malformed string give 0
C21_DamageInWholeDollars ==
    damage_result # NotCalled =>
        /\ damage_result.raised = ""
        /\ WellFormed(damage_str) =>
               damage_result.value =
                   (damage_str.head.hundredths * multiplier(damage_str.last)) \div 100
        /\ ~WellFormed(damage_str) => damage_result.value = 0

\* C22: when the request of the listing times out or fails, get_noaa_links gives
\* the empty list and raises nothing, and the run of check_noaa that follows
\* creates, updates and deletes no NoaaRecord and no NoaaEvent
C22_FailedListingWritesNothing ==
    [][checked'.raised # "" =>
          /\ checked'.links = <<>>
          /\ checked'.outcome = "done"
          /\ UNCHANGED <<noaa_records, noaa_events>>]_vars

\* the listing timed out in a run over a store that holds records and events
C22_ListingTimedOut ==
    /\ checked.raised = "TimeoutError"
    /\ checked.db_files # {}
    /\ noaa_events # <<>>

(***************************************************************************)
(* Two map_events runs at once (two mapper processes over one store), each *)
(* transaction of a run taken as one step: the selection, the resolution   *)
(* of one event, the linking transaction of one event.                     *)
(***************************************************************************)
Runs == {1, 2}

RunEvent(r) == Head(runs[r].events_to_map).id

\* a flush with a guard: a file the store links to an event is left alone
LinksFlushedUnlinkedOnly(m, e) ==
    {m[i].id : i \in {j \in DOMAIN m :
        \E f \in nc_files : f.id = m[j].id /\ f.event_id = NULL}}

\* lines 83-92 at flush: a file (an index) is updated when the event_id assigned
\* differs from the one it was loaded with
LinksFlushed(m, e) == {m[i].id : i \in {j \in DOMAIN m : m[j].event_id # e}}
RefLinksFlushed(m, e) == {m[i].ref : i \in {j \in DOMAIN m : m[j].ref_event_id # e}}

\* line 57
RunStart(r, since) ==
    /\ runs[r].pc = "idle"
    /\ runs' = [runs EXCEPT ![r] =
                   [pc |-> "map_loop",
                    events_to_map |-> SeqById({[id |-> e] : e \in get_events_to_map(since)}),
                    matching_nc_files |-> <<>>]]
    /\ UNCHANGED <<store, pc, mapper_vars, combiner_vars, last_upsert, not_runs, commits>>

\* lines 59-73: the resolver step of the next event; nothing matched: continue
RunResolve(r) ==
    /\ runs[r].pc = "map_loop"
    /\ runs[r].events_to_map # <<>>
    /\ LET e == RunEvent(r)
           m == SeqById({LoadedNcFile(f) :
                    f \in get_matching_nc_files(MapperProduct(e), WindowStart(e),
                                                WindowEnd(e))})
       IN runs' = [runs EXCEPT ![r] =
                      IF NoMatchingFiles(m)
                      THEN [@ EXCEPT !.events_to_map = Tail(@)]
                      ELSE [@ EXCEPT !.pc = "map_txn", !.matching_nc_files = m]]
    /\ UNCHANGED <<store, pc, mapper_vars, combiner_vars, last_upsert, not_runs, commits>>

\* lines 78-100: the linking transaction of the event, committed
RunCommit(r) ==
    /\ runs[r].pc = "map_txn"
    /\ \A i \in DOMAIN runs[r].matching_nc_files : runs[r].matching_nc_files[i].ref # NULL
    /\ LET e == RunEvent(r)
           m == runs[r].matching_nc_files
       IN /\ nc_files' = {IF f.id \in LinksFlushed(m, e) THEN [f EXCEPT !.event_id = e]
                          ELSE f : f \in nc_files}
          /\ individual_reference_files' =
                 {IF x.id \in RefLinksFlushed(m, e) THEN [x EXCEPT !.event_id = e]
                  ELSE x : x \in individual_reference_files}
          /\ noaa_events' = [noaa_events EXCEPT ![e].status = MAPPED]
          /\ commits' = Append(commits, [run |-> r, event |-> e])
    /\ runs' = [runs EXCEPT ![r] = [@ EXCEPT !.pc = "map_loop",
                                              !.events_to_map = Tail(@)]]
    /\ UNCHANGED <<noaa_records, event_reference_files, pc, mapper_vars, combiner_vars,
                   last_upsert, not_runs>>

\* lines 87-91 and 102-105: a loaded file has no index, the transaction is rolled
\* back and the run ends by the exception
RunRaise(r) ==
    /\ runs[r].pc = "map_txn"
    /\ \E i \in DOMAIN runs[r].matching_nc_files : runs[r].matching_nc_files[i].ref = NULL
    /\ runs' = [runs EXCEPT ![r] = [@ EXCEPT !.pc = "raised"]]
    /\ UNCHANGED <<store, pc, mapper_vars, combiner_vars, last_upsert, not_runs, commits>>

\* the for loop is exhausted
RunReturn(r) ==
    /\ runs[r].pc = "map_loop"
    /\ runs[r].events_to_map = <<>>
    /\ runs' = [runs EXCEPT ![r] = [@ EXCEPT !.pc = "returned"]]
    /\ UNCHANGED <<store, pc, mapper_vars, combiner_vars, last_upsert, not_runs, commits>>

TwoMapEvents ==
    \/ \E r \in Runs, since \in StartDates : RunStart(r, since)
    \/ \E r \in Runs : RunResolve(r)
    \/ \E r \in Runs : RunCommit(r)
    \/ \E r \in Runs : RunRaise(r)
    \/ \E r \in Runs : RunReturn(r)

SpecTwoRuns == Init /\ [][TwoMapEvents]_vars

\* C23: no guard prevents double-linking under concurrent mapping: the linking
\* transaction a run commits for an event sets the event MAPPED and writes the
\* event's id on every file it loaded with another event_id or none, whatever event
\* another run has linked the file to since it was loaded
C23_NoGuardAgainstRelinking ==
    [][\A r \in Runs :
          (runs[r].pc = "map_txn" /\ runs'[r].pc = "map_loop") =>
              /\ noaa_events'[RunEvent(r)].status = MAPPED
              /\ \A i \in DOMAIN runs[r].matching_nc_files :
                     runs[r].matching_nc_files[i].event_id # RunEvent(r) =>
                         \E f \in nc_files' :
                             /\ f.id = runs[r].matching_nc_files[i].id
                             /\ f.event_id = RunEvent(r)]_vars

\* two runs interleaved over two events whose padded windows share a raw file:
\* both events are MAPPED, each by another run, the run that committed first has
\* not ended, and the shared file names the event committed last
C23_BothMappedFileNamesLastCommitted ==
    /\ Len(commits) = 2
    /\ commits[1].run # commits[2].run
    /\ commits[1].event # commits[2].event
    /\ runs[commits[1].run].pc \in {"map_loop", "map_txn"}
    /\ noaa_events[commits[1].event].status = MAPPED
    /\ noaa_events[commits[2].event].status = MAPPED
    /\ \E f \in nc_files :
          /\ f.product = MapperProduct(commits[1].event)
          /\ f.product = MapperProduct(commits[2].event)
          /\ InWindow(f, commits[1].event)
          /\ InWindow(f, commits[2].event)
          /\ f.event_id = commits[2].event

\* C24: in a run of the index builder and in a run of the combiner no registry row
\* is written, in a session or committed, before every build or merge task has
\* completed; the batches are written one after another, the k-th session holding
\* the k-th batch, and committed rows come from closed batches only
C24_Phase2AfterPhase1 ==
    (phase2.pc # "none" \/ phase2.written # {} \/ event_reference_files # {}) =>
        /\ \A t \in DOMAIN task_pc : task_pc[t] = "done"
        /\ semaphore = SemaphoreSlots
        /\ (phase2.batch - 1) * BatchSize <= phase2.next - 1
        /\ phase2.next - 1 <= phase2.batch * BatchSize
        /\ \A r \in event_reference_files :
               r.event_id <= (IF phase2.pc = "in_session" THEN phase2.batch - 1
                              ELSE phase2.batch) * BatchSize

\* the second batch's session is open and has written, the first batch is committed
C24_SecondBatchInSession ==
    /\ unit = "process_event_ref_files"
    /\ phase2.pc = "in_session"
    /\ phase2.batch = 2
    /\ Cardinality(event_reference_files) = BatchSize
    /\ Cardinality(phase2.written) > BatchSize

\* an event map_events(since) does not select
NotSelected(e) ==
    \/ noaa_events[e].status # UNMAPPED
    \/ start_date # NULL /\ noaa_events[e].date_time_start < start_date

\* a step of the run leaves the events it did not select as they are
UnselectedKept ==
    \A e \in DOMAIN noaa_events :
        NotSelected(e) =>
            /\ noaa_events'[e].status = noaa_events[e].status
            /\ \A f \in nc_files' : f.event_id = e => f \in nc_files
            /\ \A r \in individual_reference_files' :
                   r.event_id = e => r \in individual_reference_files

\* C25: in a run of map_events(since), an event that starts before since or whose
\* status is MAPPED or MODIFIED keeps its status, and no raw file and no individual
\* index gets that event's id written on it
C25_UnselectedEventsUntouched ==
    [][(pc \in {"map_loop", "map_matched", "map_txn"}) => UnselectedKept]_vars

\* a run with a lower bound returned after mapping an event, and an UNMAPPED event
\* that starts before the bound, with a raw file of its product in its window, is
\* still UNMAPPED and names no file
C25_EarlierEventLeftUnmapped ==
    /\ pc = "returned"
    /\ start_date # NULL
    /\ \E e \in DOMAIN noaa_events : run_log[e] = "mapped"
    /\ \E e \in DOMAIN noaa_events :
          /\ noaa_events[e].status = UNMAPPED
          /\ noaa_events[e].date_time_start < start_date
          /\ \E f \in nc_files :
                f.product = MapperProduct(e) /\ InWindow(f, e) /\ f.event_id # e

(***************************************************************************)
(* The size of the semaphore: asyncio.Semaphore(os.cpu_count() or 4),      *)
(* kerchunk_tools.py line 147 and kerchunk_event_refs.py line 127.         *)
(* os.cpu_count() answers a positive number, or None (NULL here) when the  *)
(* count cannot be determined.                                             *)
(***************************************************************************)
MaxCpus == 64
CpuCounts == (1..MaxCpus) \cup {NULL}

\* x or 4: x when x is truthy, else 4
or_4(x) == IF x # NULL THEN x ELSE 4

CreateSemaphore ==
    /\ slots = NotCalled
    /\ slots' = Returned(or_4(cpu_count))
    /\ UNCHANGED <<store, pc, mapper_vars, combiner_vars, last_upsert, not_cpu, cpu_count>>

InitSemaphore ==
    /\ cpu_count \in CpuCounts
    /\ slots = NotCalled
    /\ IdleOverEmptyStore
    /\ FlushIdle /\ ParseIdle /\ SemIdle /\ UploadIdle /\ ScopeIdle /\ CheckedIdle
    /\ DamageIdle /\ RunsIdle /\ Phase2Idle /\ LookupIdle /\ RerunIdle /\ DatesIdle

SpecSemaphore == InitSemaphore /\ [][CreateSemaphore]_vars

\* C26: N is the host's CPU count with a minimum of 4: 4 on a host that reports
\* fewer than 4 CPUs or no count, the CPU count otherwise
C26_AtLeastFourSlots ==
    slots # NotCalled =>
        slots.value = IF cpu_count = NULL \/ cpu_count < 4 THEN 4 ELSE cpu_count

\* C27: the product stored on a combined index is the first entry of
\* event_to_product_map for its event's category, the product the mapper matched
\* the event's files by; every individual index linked to the event has the product
\* of the event's combined index
C27_CombinedIndexHasMapperProduct ==
    \A c \in event_reference_files :
        /\ c.product = event_to_product_map[noaa_events[c.event_id].noaa_product][1]
        /\ \A r \in individual_reference_files :
               r.event_id = c.event_id => r.product = c.product

\* a MAPPED event with a combined index and an individual index linked to it
C27_CombinedOverLinkedIndex ==
    \E c \in event_reference_files :
        /\ noaa_events[c.event_id].status = MAPPED
        /\ \E r \in individual_reference_files : r.event_id = c.event_id
        /\ \E f \in nc_files : f.event_id = c.event_id /\ f.product = c.product

(***************************************************************************)
(* batch_upsert_refs run again over a registry the mapper has written to:  *)
(* the indexed raw files in the window of the first event are linked to    *)
(* it, and so are their individual indexes.                                *)
(***************************************************************************)
LinkedTo(k, I) ==
    IF k \in I /\ k[1] = "rainfall" /\ k[2] <= EventCatalog[1].date_time_end + PaddingMinutes
    THEN 1 ELSE NULL

InitLinked ==
    /\ noaa_events = <<MappedEvent(1), EventCatalog[2]>>
    /\ noaa_records = {[id |-> 1, file_year |-> FileYear, last_modified |-> 1]}
    /\ \E c \in {d \in InitialFiles : d[1] \subseteq RegistryKeys /\ d[2] # {}} :
          /\ nc_files = {[NcRow(k, c[1], c[2]) EXCEPT !.event_id = LinkedTo(k, c[2])] :
                            k \in c[1]}
          /\ individual_reference_files =
                 {[RefRow(k, c[1]) EXCEPT !.event_id = LinkedTo(k, c[2])] : k \in c[2]}
    /\ event_reference_files = {}
    /\ s3_objects = {}
    /\ pc = "idle"
    /\ start_date = NULL
    /\ events_to_map = <<>>
    /\ matching_nc_files = <<>>
    /\ link_i = 0
    /\ run_log = NoLog
    /\ mapped_files = [e \in DOMAIN noaa_events |-> {}]
    /\ events = <<>>
    /\ items = <<>>
    /\ merge_log = {}
    /\ last_upsert = NoUpsert
    /\ SideInit

SpecRerun == InitLinked /\ [][batch_upsert_refs]_vars

\* C28: after batch_upsert_refs ran again for a raw file that is linked to an
\* event, the raw file's row and its individual index's row have the event_id they
\* had before
C28_EventLinkKept ==
    pc = "flushed" =>
        /\ \A f \in session.nc0 :
               f.event_id # NULL =>
                   \E g \in nc_files : g.s3_path = f.s3_path /\ g.event_id = f.event_id
        /\ \A r \in session.ref0 :
               r.event_id # NULL =>
                   \E x \in individual_reference_files :
                       x.s3_path = r.s3_path /\ x.event_id = r.event_id

(***************************************************************************)
(* From a row of a yearly file to the mapper's product: the filter of      *)
(* parse_noaa_csv (checker/noaa.py lines 71-79) over storm_types_sorted    *)
(* (checker/src/events_magnitudes.py), then the lookup of mapper.py line   *)
(* 61 in event_to_product_map.                                             *)
(***************************************************************************)
casa_events == {"CASA Hail", "CASA Rain Rate", "NWS Severe Thunderstorm Warning",
                "CASA 15-min Rain Accumulation", "NWS Flood Warning", "CASA Basin Alert",
                "NWS Tornado Warning", "NWS Flash Flood Warning"}
storm_types_and_magnitudes ==
    {"Tornado", "Hail", "High Wind", "Strong Wind", "Thunderstorm Wind", "Blizzard",
     "Flash Flood", "Flood", "Funnel Cloud", "Heavy Rain", "Heavy Snow", "Ice Storm"}
        \cup casa_events
\* list(storm_types_and_magnitudes.keys()) + ["All"]
storm_types_sorted == storm_types_and_magnitudes \cup {"All"}
\* two of the counties of the list
countieslist == {"Dallas", "Denton"}

CsvRows ==
    [state : {"TEXAS", "OKLAHOMA"}, CZ_NAME : countieslist \cup {"Harris"},
     EVENT_TYPE : storm_types_sorted \cup {"Drought"}]

\* lines 74-78: the filter
admitted(row) ==
    /\ row.state = "TEXAS"
    /\ row.CZ_NAME \in countieslist
    /\ row.EVENT_TYPE \in storm_types_sorted

\* event_to_product_map[event.noaa_product][0]
product_of(noaa_product) ==
    IF noaa_product \in DOMAIN event_to_product_map
    THEN [raised |-> "", value |-> event_to_product_map[noaa_product][1]]
    ELSE [raised |-> "KeyError", value |-> ""]

ParseNoaaCsvRow ==
    /\ ingested = "not parsed"
    /\ ingested' = IF admitted(csv_row) THEN "kept" ELSE "dropped"
    /\ UNCHANGED <<store, pc, mapper_vars, combiner_vars, last_upsert, not_lookup,
                   csv_row, lookup>>

\* map_events reaches the event of the row
LookupProduct ==
    /\ ingested = "kept"
    /\ lookup = NotCalled
    /\ lookup' = product_of(extract_event_from_row(
                     [EVENT_TYPE |-> csv_row.EVENT_TYPE, BEGIN_DATE_TIME |-> 15,
                      END_DATE_TIME |-> 15]).noaa_product)
    /\ UNCHANGED <<store, pc, mapper_vars, combiner_vars, last_upsert, not_lookup,
                   csv_row, ingested>>

InitLookup ==
    /\ csv_row \in CsvRows
    /\ ingested = "not parsed"
    /\ lookup = NotCalled
    /\ IdleOverEmptyStore
    /\ FlushIdle /\ ParseIdle /\ SemIdle /\ UploadIdle /\ ScopeIdle /\ CheckedIdle
    /\ DamageIdle /\ RunsIdle /\ Phase2Idle /\ CpuIdle /\ RerunIdle /\ DatesIdle

SpecLookup == InitLookup /\ [][ParseNoaaCsvRow \/ LookupProduct]_vars

\* C29: every category the ingestion filter admits has an entry with at least one
\* product in event_to_product_map: the mapper's lookup never fails for an ingested
\* event
C29_LookupNeverFails ==
    ingested = "kept" => lookup.raised \in {"not called", ""}

\* the raw files the resolver gives for an event, and those of them with an index
MatchingNow(e) == get_matching_nc_files(MapperProduct(e), WindowStart(e), WindowEnd(e))
Indexed(f) == \E r \in individual_reference_files : r.id = f.ref_file_id

\* a step that sets an event MAPPED finds every matching file indexed; a step that
\* ends the transaction by an exception leaves events, files and indexes as
\* committed
MappedOnlyOverIndexes ==
    /\ \A e \in DOMAIN noaa_events :
           (noaa_events[e].status # MAPPED /\ noaa_events'[e].status = MAPPED) =>
               /\ MatchingNow(e) # {}
               /\ \A f \in MatchingNow(e) : Indexed(f)
    /\ (pc = "map_txn" /\ pc' = "raised") =>
           /\ noaa_events'[CurrentEvent.id].status = UNMAPPED
           /\ UNCHANGED <<noaa_events, nc_files, individual_reference_files>>

\* C30: map_events sets an event MAPPED only if every matching raw file has a linked
\* individual index at that moment; otherwise the transaction is rolled back, the
\* event stays UNMAPPED and no matching file keeps an event_id from that attempt
C30_MappedOnlyIfAllIndexed ==
    [][MappedOnlyOverIndexes]_vars

\* the second matching file had no index: the first one was linked in the session,
\* the run raised, and the event is UNMAPPED with no file naming it
C30_RolledBackAtSecondFile ==
    /\ pc = "raised"
    /\ link_i = 2
    /\ run_log[CurrentEvent.id] = "failed"
    /\ noaa_events[CurrentEvent.id].status = UNMAPPED
    /\ \E f \in MatchingNow(CurrentEvent.id) : Indexed(f)
    /\ \A f \in nc_files : f.event_id # CurrentEvent.id

(***************************************************************************)
(* Mapper runs and index-builder flushes over one registry, one process    *)
(* after the other: mapper.py lines 108-112 and kerchunker/main.py run an  *)
(* entry point under asyncio.run and the process ends.                     *)
(***************************************************************************)
\* the process of the last run is gone, and its locals with it
ProcessExit ==
    /\ pc \in {"returned", "raised", "flushed", "flush_raised"}
    /\ pc' = "idle"
    /\ start_date' = NULL
    /\ events_to_map' = <<>>
    /\ matching_nc_files' = <<>>
    /\ link_i' = 0
    /\ run_log' = NoLog
    /\ session' = NoSession
    /\ flush_items' = <<>>
    /\ flush_log' = <<>>
    /\ UNCHANGED <<store, mapped_files, combiner_vars, last_upsert, not_flush>>

MapAndFlush == MapEvents \/ batch_upsert_refs \/ ProcessExit

\* a flood event and a snow event, and a registry of raw files of both products,
\* some of them indexed, none linked yet
InitLinks ==
    /\ noaa_events = <<EventCatalog[3], EventCatalog[4]>>
    /\ noaa_records = {[id |-> 1, file_year |-> FileYear, last_modified |-> 1]}
    /\ \E c \in InitialFiles :
          /\ nc_files = {NcRow(k, c[1], c[2]) : k \in c[1]}
          /\ individual_reference_files = {RefRow(k, c[1]) : k \in c[2]}
    /\ event_reference_files = {}
    /\ s3_objects = {}
    /\ pc = "idle"
    /\ start_date = NULL
    /\ events_to_map = <<>>
    /\ matching_nc_files = <<>>
    /\ link_i = 0
    /\ run_log = NoLog
    /\ mapped_files = [e \in DOMAIN noaa_events |-> {}]
    /\ events = <<>>
    /\ items = <<>>
    /\ merge_log = {}
    /\ last_upsert = NoUpsert
    /\ SideInit

SpecLinks == InitLinks /\ [][MapAndFlush]_vars

\* C31: link soundness.  In every committed store state reached by mapper runs and
\* index-builder flushes, each raw file whose event_id is set to an event E has its
\* timestamp within [E.start - 15, E.end + 15] and the first mapped product of E's
\* category.
C31_LinkSoundness ==
    \A f \in nc_files :
        f.event_id # NULL =>
            /\ f.event_id \in DOMAIN noaa_events
            /\ InWindow(f, f.event_id)
            /\ f.product = event_to_product_map[noaa_events[f.event_id].noaa_product][1]

\* C31 witness: after a mapper run and a flush, a raw file is linked to an event
\* while the store holds a file outside that event's window or of another product
C31_LinkedNextToUnrelatedFile ==
    /\ pc = "flushed"
    /\ \E i \in 1..Len(flush_log) : flush_log[i].outcome = "ok"
    /\ \E f, g \in nc_files :
          /\ f.event_id # NULL
          /\ g.event_id = NULL
          /\ \/ ~InWindow(g, f.event_id)
             \/ g.product # f.product

\* C32: link consistency.  In every committed store state reached by mapper runs and
\* index-builder flushes, those that fail part-way included, an individual-index row
\* whose nc_file_id names a raw file has the event_id of that raw file.
C32_LinkConsistency ==
    \A r \in individual_reference_files :
        \A f \in nc_files :
            r.nc_file_id = f.id => r.event_id = f.event_id

\* C32 witness: the flush of a linked raw file failed after its first statement; the
\* raw file and its index are linked to the event as before
C32_LinkedPairAfterFailedFlush ==
    /\ pc = "flushed"
    /\ \E i \in 1..Len(flush_log) :
          /\ flush_log[i].outcome = "failed"
          /\ flush_log[i].step > 1
          /\ \E f \in nc_files :
                /\ f.s3_path = flush_log[i].path
                /\ f.event_id # NULL
                /\ \E r \in individual_reference_files :
                      r.nc_file_id = f.id /\ r.event_id = f.event_id

\* C33: when the build of one file's index, or the merge of one event's combined
\* index, raised during a run, the results of the tasks that returned in that run
\* are flushed to the registry by that run
C33_OtherResultsFlushed ==
    gather = "raised" =>
        \A t \in DOMAIN task_pc :
            task_pc[t] = "done" =>
                \E r \in event_reference_files : r.event_id = t

\* C34: uploading a raw file whose storage key is already registered in nc_files
\* leaves exactly one nc_files row for that key and records no failed_uploads row
\* for it
C34_ReuploadLeavesOneRow ==
    (upload.pc \in {"returned", "raised"} /\ upload.registered) =>
        /\ Cardinality(RowsAt(nc_files, upload.remote_file_path)) = 1
        /\ FailedRows(failed_uploads) = FailedRows(upload.failed_uploads0)

\* C35: yearly ingestion is atomic per year: after any check_noaa run, one that
\* failed while fetching or inserting a year's events included, a NoaaRecord exists
\* for a year only if that year's events were ingested
C35_RecordOnlyWithEvents ==
    checked.outcome # "none" =>
        \A record \in noaa_records :
            Range(YearEvents(record.file_year)) \subseteq Range(noaa_events)

(***************************************************************************)
(* map_events called again with the same start_date, right after a call    *)
(* that returned.                                                          *)
(***************************************************************************)
\* mapper.py lines 53-57 of the repeated call: the selection is read again
MapStartAgain ==
    /\ pc = "returned"
    /\ rerun' = TRUE
    /\ events_to_map' = SeqById({[id |-> e] : e \in get_events_to_map(start_date)})
    /\ run_log' = [e \in DOMAIN noaa_events |->
                      IF e \in get_events_to_map(start_date) THEN "selected" ELSE "none"]
    /\ matching_nc_files' = <<>>
    /\ link_i' = 0
    /\ pc' = "map_loop"
    /\ UNCHANGED <<store, start_date, mapped_files, combiner_vars, last_upsert, not_rerun>>

\* a first call over the store, then repeated calls as long as the last one returned
MapTwice ==
    \/ \E since \in StartDates : pc = "idle" /\ MapStart(since)
    \/ MapResolve
    \/ MapSkip
    \/ MapBegin
    \/ MapLinkFile
    \/ MapLinkFileNoRef
    \/ MapStoreFailure
    \/ MapCommit
    \/ MapReturn
    \/ MapStartAgain

SpecTwice == Init /\ [][MapTwice]_vars

\* C36: map_events is idempotent over an unchanged catalog: a call of
\* map_events(since) made right after a call that returned changes no event status
\* and no event_id of a raw file or of an individual index
C36_SecondRunChangesNothing ==
    [][rerun => UNCHANGED <<noaa_events, nc_files, individual_reference_files>>]_vars

\* C36 witness: the repeated call returned; it selected again an event the first call
\* skipped, next to an event the first call mapped
C36_RepeatedRunReturned ==
    /\ rerun
    /\ pc = "returned"
    /\ \E e, d \in DOMAIN noaa_events :
          /\ run_log[e] = "skipped"
          /\ noaa_events[d].status = MAPPED
          /\ mapped_files[d] # {}

(***************************************************************************)
(* One coroutine runs map_events: the event loop resumes it after each     *)
(* awaited store operation, which returns or raises.                       *)
(***************************************************************************)
\* a step of a running map_events
MapStep ==
    \/ MapResolve
    \/ MapSkip
    \/ MapBegin
    \/ MapLinkFile
    \/ MapLinkFileNoRef
    \/ MapStoreFailure
    \/ MapCommit
    \/ MapReturn

SpecMapLive == Init /\ [][MapEvents]_vars /\ WF_vars(MapStep)

\* an event map_events(start_date) selects if it is UNMAPPED
InScope(e) == start_date # NULL => noaa_events[e].date_time_start >= start_date

\* C37: map_events terminates on every finite store, and when the run returns, every
\* event that was UNMAPPED with start >= since and has at least one matching raw
\* file, each with an individual index, is MAPPED
C37_TerminatesAndMaps ==
    /\ (pc \in {"map_loop", "map_matched", "map_txn"}) ~> (pc \in {"returned", "raised"})
    /\ [](pc = "returned" =>
            \A e \in DOMAIN noaa_events :
                ( /\ InScope(e)
                  /\ noaa_events[e].status # MODIFIED
                  /\ MatchingNow(e) # {}
                  /\ \A f \in MatchingNow(e) : Indexed(f) )
                => noaa_events[e].status = MAPPED)

\* C37 witness: a run with a start date returned after it mapped an event over two
\* indexed raw files
C37_ReturnedWithTwoFilesMapped ==
    /\ pc = "returned"
    /\ start_date # NULL
    /\ \E e \in DOMAIN noaa_events :
          /\ run_log[e] = "mapped"
          /\ noaa_events[e].status = MAPPED
          /\ Cardinality(MatchingNow(e)) = 2
          /\ \A f \in MatchingNow(e) : Indexed(f) /\ f.event_id = e

(***************************************************************************)
(* uploader/uploader.py: copy_mgh5_to_osn over the date directories of a   *)
(* product, with upsert_last_uploaded_date of uploader/src/db_tools.py.    *)
(* A date is the number of its day; a file of a directory is named by its  *)
(* product, its date, its radar ("" outside singleradar) and its rank in   *)
(* the listing.                                                            *)
(***************************************************************************)
MaxDirFiles == 2
Days == {1, 2}
\* src/uploader_tools.py list_of_radars, the first two
Radars == <<"XMDL", "XJCO">>
ProductTypes == {"rainfall", "singleradar"}

\* sftp.listdir of a base path: the date directories it holds with their numbers of
\* files
DirListings == UNION {[S -> 0..MaxDirFiles] : S \in SUBSET Days}

\* lines 59-67 and 227-234: sorted(sftp.listdir(base_path)), kept if a day to check
get_relevant_dates(radar, listing) ==
    [i \in 1..Cardinality(DOMAIN listing) |->
        [radar |-> radar, date_dir |-> Nth(DOMAIN listing, i),
         files |-> listing[Nth(DOMAIN listing, i)]]]

\* lines 269-287: the directories of the product in the order they are processed:
\* radar by radar for singleradar
DirectoriesOf(product, tree) ==
    IF product = "singleradar"
    THEN get_relevant_dates(Radars[1], tree[1]) \o get_relevant_dates(Radars[2], tree[2])
    ELSE get_relevant_dates("", tree[1])

CurrentDir == Head(copy.todo)
FileKey(i) == <<copy.product, CurrentDir.date_dir, CurrentDir.radar, i>>

\* upsert_last_uploaded_date, lines 112-128: INSERT ... ON CONFLICT (product) DO
\* UPDATE SET date = EXCLUDED.date
upsert_last_uploaded_date(table, dto) == [table EXCEPT ![dto.product] = dto.date]

\* the side state the uploader's run leaves alone
not_copy == <<flush_vars, parse_vars, sem_vars, scope_vars, checked_vars, damage_vars,
              runs_vars, phase2_vars, cpu_vars, lookup_vars, rerun_vars, upload>>

\* lines 252-287: the run starts on one product
CopyStart(product, tree) ==
    /\ copy.pc = "idle"
    /\ copy' = [pc |-> "dirs", product |-> product,
                todo |-> DirectoriesOf(product, tree), next |-> 0]
    /\ UNCHANGED <<store, pc, mapper_vars, combiner_vars, last_upsert, not_copy,
                   failed_uploads, last_uploaded_date>>

\* process_date_dir, lines 206-215: the files of the next directory are listed
DirOpen ==
    /\ copy.pc = "dirs"
    /\ copy.todo # <<>>
    /\ copy' = [copy EXCEPT !.pc = "files", !.next = 1]
    /\ UNCHANGED <<store, pc, mapper_vars, combiner_vars, last_upsert, not_copy,
                   failed_uploads, last_uploaded_date>>

\* process_files, lines 176-193, and upload_file: the file is downloaded, uploaded
\* and registered
FileUploaded ==
    /\ copy.pc = "files"
    /\ copy.next <= CurrentDir.files
    /\ RowsAt(nc_files, FileKey(copy.next)) = {}
    /\ nc_files' = post_nc_file(nc_files, FileKey(copy.next))
    /\ copy' = [copy EXCEPT !.next = @ + 1]
    /\ UNCHANGED <<noaa_records, noaa_events, individual_reference_files,
                   event_reference_files, pc, mapper_vars, combiner_vars, last_upsert,
                   not_copy, failed_uploads, last_uploaded_date>>

\* lines 177-180, 194-195: download_file raises, the error is logged and the loop
\* goes on with the next file
FileDownloadFails ==
    /\ copy.pc = "files"
    /\ copy.next <= CurrentDir.files
    /\ copy' = [copy EXCEPT !.next = @ + 1]
    /\ UNCHANGED <<store, pc, mapper_vars, combiner_vars, last_upsert, not_copy,
                   failed_uploads, last_uploaded_date>>

\* upload_file, lines 110-124: the three attempts fail, the failure is recorded and
\* the task returns
FileUploadFails(e) ==
    /\ copy.pc = "files"
    /\ copy.next <= CurrentDir.files
    /\ failed_uploads' =
           log_failed_upload(failed_uploads, FailedUploadDTO(FileKey(copy.next), e))
    /\ copy' = [copy EXCEPT !.next = @ + 1]
    /\ UNCHANGED <<store, pc, mapper_vars, combiner_vars, last_upsert, not_copy,
                   last_uploaded_date>>

\* process_date_dir, lines 217-221: process_files returned, the date is upserted
DirClose ==
    /\ copy.pc = "files"
    /\ copy.next > CurrentDir.files
    /\ last_uploaded_date' =
           upsert_last_uploaded_date(last_uploaded_date,
               [product |-> copy.product, date |-> CurrentDir.date_dir])
    /\ copy' = [copy EXCEPT !.pc = "dirs", !.todo = Tail(@), !.next = 0]
    /\ UNCHANGED <<store, pc, mapper_vars, combiner_vars, last_upsert, not_copy,
                   failed_uploads>>

\* lines 207, 197-198, 220: the listing, the gather of the upload tasks or the
\* upsert raises: nothing in copy_mgh5_to_osn catches it
DirRaise ==
    /\ copy.pc = "files"
    /\ copy' = [copy EXCEPT !.pc = "raised"]
    /\ UNCHANGED <<store, pc, mapper_vars, combiner_vars, last_upsert, not_copy,
                   failed_uploads, last_uploaded_date>>

\* lines 233-237, 289: no directory is left
CopyReturn ==
    /\ copy.pc = "dirs"
    /\ copy.todo = <<>>
    /\ copy' = [copy EXCEPT !.pc = "returned"]
    /\ UNCHANGED <<store, pc, mapper_vars, combiner_vars, last_upsert, not_copy,
                   failed_uploads, last_uploaded_date>>

copy_mgh5_to_osn ==
    \/ \E product \in ProductTypes, tree \in DirListings \X DirListings :
          CopyStart(product, tree)
    \/ DirOpen
    \/ FileUploaded
    \/ FileDownloadFails
    \/ \E e \in UploadErrors : FileUploadFails(e)
    \/ DirClose
    \/ DirRaise
    \/ CopyReturn

\* an empty registry and no last_uploaded_date row
InitCopy ==
    /\ IdleOverEmptyStore
    /\ SideInit

SpecCopy == InitCopy /\ [][copy_mgh5_to_osn]_vars

\* a step that changes the date of a product: every file of the directory is
\* registered, and the date it held is not later than the new one
DateAdvances ==
    \A p \in DOMAIN last_uploaded_date :
        last_uploaded_date'[p] # last_uploaded_date[p] =>
            /\ \A i \in 1..CurrentDir.files : RowsAt(nc_files, FileKey(i)) # {}
            /\ last_uploaded_date[p] # NULL =>
                   last_uploaded_date'[p] >= last_uploaded_date[p]

\* C38: the last_uploaded_date of a product is advanced to a date directory only
\* after every file of that directory was uploaded and registered, and within one
\* copy_mgh5_to_osn run it never moves to an earlier date than one it already held,
\* across the radar directories of singleradar included
C38_DateOnlyForwardAfterFullDirectory ==
    [][DateAdvances]_vars

(***************************************************************************)
(* checker/src/noaa_tools.py: process_damage on strings made of digits     *)
(* only.  damage_str[:-1] is the head and damage_str[-1] the last          *)
(* character, as above: "25" is the head "2" and the last character "5",   *)
(* "5" the empty head and the last character "5".                          *)
(***************************************************************************)
MaxHead == 9
DigitOf == [c \in {"0", "1", "2", "3", "4", "5", "6", "7", "8", "9"} |->
               CASE c = "0" -> 0 [] c = "1" -> 1 [] c = "2" -> 2 [] c = "3" -> 3
                 [] c = "4" -> 4 [] c = "5" -> 5 [] c = "6" -> 6 [] c = "7" -> 7
                 [] c = "8" -> 8 [] c = "9" -> 9]

\* the strings of one digit, and of the digits of a whole number followed by one digit
DigitStrings ==
    {[head |-> Text("empty"), last |-> c] : c \in DOMAIN DigitOf}
        \cup {[head |-> Numeral(100 * n), last |-> c] : n \in 0..MaxHead,
                                                         c \in DOMAIN DigitOf}

\* the number the digits of the string denote
DigitsValue(s) ==
    (IF s.head.kind = "numeral" THEN 10 * (s.head.hundredths \div 100) ELSE 0)
        + DigitOf[s.last]

InitDigits ==
    /\ damage_str \in DigitStrings
    /\ damage_result = NotCalled
    /\ IdleOverEmptyStore
    /\ FlushIdle /\ ParseIdle /\ SemIdle /\ UploadIdle /\ ScopeIdle /\ CheckedIdle
    /\ RunsIdle /\ Phase2Idle /\ CpuIdle /\ LookupIdle /\ RerunIdle /\ DatesIdle

SpecDigits == InitDigits /\ [][ProcessDamage]_vars

\* C39: for a damage string made only of digits, with no K, M or B at its end,
\* process_damage returns the number those digits denote: the last character is
\* dropped from the numeric part only when it is K, M or B
C39_DigitsKeepLastDigit ==
    (damage_result # NotCalled /\ damage_str \in DigitStrings) =>
        damage_result = Returned(DigitsValue(damage_str))
====
